---- MODULE Spec2Model ----
(***************************************************************************)
(* Model of the SoundAware conversational-awareness backend.               *)
(*                                                                         *)
(* Part 1: VolumeActionDispatcherImpl (services/ConfigurationManager.ts,   *)
(*         lines 254-460): the normal/lowered state machine, the silence   *)
(*         timer and the emitted volume commands.                          *)
(*                                                                         *)
(* Part 2: the processing pipeline of ConversationalAwarenessBackend       *)
(*         (index.ts): audio frame -> VoiceProfileServiceImpl ignore       *)
(*         filter -> TranscriptionServiceImpl (Deepgram live connection    *)
(*         and retry queue) -> handleTranscript -> attention engine ->     *)
(*         dispatcher.                                                     *)
(*                                                                         *)
(* Units.  Time is counted in units of 1000 ms (silenceTimeoutMs = 10      *)
(* stands for 10000 ms).  Sensitivities and confidences are hundredths     *)
(* (0.95 is 95, 0.5 is 50).                                                *)
(*                                                                         *)
(* Time.  A pending timeout is kept with the time that remains until it    *)
(* is due; Tick lets one unit pass.  A timeout whose remaining time is 0   *)
(* may run its callback; it may run late, never early.  Wall-clock values  *)
(* (action.timestamp, lastActionTimestamp) and the dispatcher's own          *)
(* sensitivityLevel field, which no branch of the code reads, are not      *)
(* kept: dispatchAction decides on the sensitivity it is passed.           *)
(***************************************************************************)
EXTENDS Integers, Sequences, FiniteSets, TLC

\* ------------------------------------------------------------------ bounds
MaxEmitted == 3          \* length of the command log explored
MaxTimerIds == 3         \* timer handles in rotation
MaxFrames == 2           \* audio frames received from clients
MaxClients == 2          \* connections the hub accepts
MaxMessages == 1         \* inbound messages the hub receives
MaxStreams == 3          \* calls of startStream
MaxRetries == 2          \* sends the retry loop attempts
MaxFailures == 5         \* failures counted for one operation or breaker
MaxPending == 2          \* operations awaited by execute at one time
MaxMatches == 2          \* matches counted for one voice profile

\* ------------------------------------------------------- program constants
DefaultSilenceTimeoutMs == 10   \* silenceTimeoutMs = 10000  (dispatcher field)
MinSilenceTimeoutMs == 1        \* setSilenceTimeout rejects timeoutMs < 1000
ProbableThreshold == 50         \* PROBABLY_TO_ME lowers only if sensitivity > 0.5
ConfDefinite == 95              \* createLowerVolumeAction(decision, 0.95)
ConfProbable == 70              \* createLowerVolumeAction(decision, 0.7)
ConfRestore == 100              \* createRestoreVolumeAction: confidence 1.0
ConfForce == 100                \* forceLowerVolume: confidence 1.0

DefaultVoiceSensitivity == 70   \* VoiceProfileServiceImpl.sensitivityLevel = 0.7
DefaultConfigSensitivity == 70  \* ConfigurationModel.sensitivityLevel = 0.7
DefaultConfigTimeoutMs == 5     \* ConfigurationModel.silenceTimeoutMs = 5000
DefaultDispatcherSensitivity == 70 \* VolumeActionDispatcherImpl.sensitivityLevel = 0.7
MAX_RETRY_COUNT == 5            \* TranscriptionServiceImpl.MAX_RETRY_COUNT
MAX_QUEUE_SIZE == 100           \* TranscriptionServiceImpl.MAX_QUEUE_SIZE
BASE_RETRY_DELAY_MS == 1        \* TranscriptionServiceImpl.BASE_RETRY_DELAY_MS = 1000

\* the hub's clocks are counted in units of 5000 ms
HEARTBEAT_INTERVAL_MS == 2      \* WebSocketManagerImpl.HEARTBEAT_INTERVAL_MS = 10000
HEARTBEAT_TIMEOUT_MS == 6       \* WebSocketManagerImpl.HEARTBEAT_TIMEOUT_MS = 30000

Null == 0                       \* null: no timer handle, no connection, no segment

Decisions == {"DEFINITELY_TO_ME", "PROBABLY_TO_ME", "IGNORE"}

\* ErrorHandler and CircuitBreaker
FAILURE_WARNING_THRESHOLD == 3  \* ErrorHandler.FAILURE_WARNING_THRESHOLD
DefaultFailureThreshold == 5    \* config.failureThreshold || 5
DefaultResetTimeoutMs == 3      \* config.resetTimeoutMs || 30000
DefaultHalfOpenRequests == 3    \* config.halfOpenRequests || 3
OperationNames == {"transcription", "llm", "websocket"}
\* sensitivities offered to dispatchAction: both sides of the 0.5 boundary
SensitivityInputs == {0, 50, 51, 100}
\* timeouts offered to setSilenceTimeout: 0 stands for a value below 1000 ms
TimeoutInputs == {0, 1, 2}

VARIABLES
  \* ---- VolumeActionDispatcherImpl
  currentVolumeState,   \* 'normal' | 'lowered'
  silenceTimer,         \* the handle the dispatcher holds (Null or a timer id)
  silenceTimeoutMs,     \* dispatcher field
  timers,               \* the runtime's pending timeouts: set of [id, remaining]
  lastTimerId,          \* the runtime: the handle setTimeout returned last
  emitted,              \* every 'volume_action' emitted, in order
  quietDue,             \* history: time still to pass until a full silenceTimeoutMs
                        \*   has elapsed since the last attention verdict
  lastOp,               \* history: the call on the dispatcher that made the last step
  \* ---- ConversationalAwarenessBackend and its services
  phase,                \* "constructed" | "started" | "failed" (start() rejected)
  configSensitivity,    \* configManager.config.sensitivityLevel
  attentionKeywords,    \* AttentionDetectionEngineImpl.attentionKeywords
  voiceSensitivity,     \* VoiceProfileServiceImpl.sensitivityLevel
  profiles,             \* VoiceProfileServiceImpl.profiles, in insertion order
  transcriptionService, \* TRUE when backend.transcriptionService is not null
  isStreaming,          \* TranscriptionServiceImpl.isStreaming
  liveConnection,       \* TranscriptionServiceImpl.liveConnection (Null or index in conns)
  conns,                \* Deepgram: the live connections opened so far
  retryQueue,           \* TranscriptionServiceImpl.retryQueue: <<[frame, retryCount]>>
  isRetrying,           \* TranscriptionServiceImpl.isRetrying
  drainLoops,           \* calls of processRetryQueue that are in their while loop
  retrySegment,         \* the segment processRetryQueue holds while it waits
  retryDelayMs,         \* the delay processRetryQueue waits for
  retryCount,           \* retryCount of the segment processRetryQueue holds
  retryElapsed,         \* how much of that delay has passed
  currentAudioSegmentId, \* TranscriptionServiceImpl.currentAudioSegmentId (Null: '')
  lastSent,             \* history: the frame that reached a connection last,
                        \*   kept while segments wait in the retry queue
  errorListener,        \* TRUE when a listener for 'error' is registered on the service
  retryAttempts,        \* history: sends processRetryQueue has attempted
  lastStt,              \* history: the call on the service that made the last step
  audioFailures,        \* globalErrorHandler: failureCount of 'audio_processing'
  nextFrame,            \* history: number of the next audio frame
  ignored,              \* history: frames for which matchesIgnoreList said isMatch
  lastEvent,            \* history: the transcript event that made the last step
  \* ---- WebSocketManagerImpl
  wss,                  \* TRUE while the WebSocketServer exists and the monitor runs
  heartbeatIn,          \* time until the heartbeat interval fires next
  clients,              \* WebSocketManagerImpl.clients: the ids in the registry
  sessions,             \* every ClientConnection made so far, by client id
  nextMessage,          \* history: number of the next inbound message
  lastHub,              \* history: the hub handler that made the last step
  \* ---- AttentionDetectionEngineImpl
  userName,             \* AttentionDetectionEngineImpl.userName
  llmProvider,          \* TRUE when llmProvider is not null
  llmEnabled,           \* AttentionDetectionEngineImpl.llmEnabled
  uncertaintyThreshold, \* AttentionDetectionEngineImpl.uncertaintyThreshold, in percent
  lastDetect,           \* history: the last analyzeWithDetails call and its result
  \* ---- ErrorHandler
  failureTrackers,      \* ErrorHandler.failureTrackers: operation name -> tracker
  lastRecord,           \* history: the last call on the handler and what it emitted
  \* ---- CircuitBreaker
  config,               \* CircuitBreaker.config
  state,                \* CircuitBreaker.state
  failureCount,         \* CircuitBreaker.failureCount
  successCount,         \* CircuitBreaker.successCount
  lastFailureTime,      \* time that has passed since lastFailureTime was set
  pending,              \* execute calls whose operation has not settled yet
  pendingProbes,        \* those of them that execute let through in HALF_OPEN
  lastExecute,          \* history: the last step of an execute call
  \* ---- VoiceProfileServiceImpl (its fields are profiles and voiceSensitivity above)
  lastProfile,          \* history: the last call on the voice profile service
  \* ---- ConfigurationManagerImpl (configSensitivity above is what
  \*      getSensitivityLevel() returns: the sensitivityLevel of storedConfig)
  storedConfig,         \* ConfigurationManagerImpl.config
  configFile,           \* what config.json holds
  dispatcherSensitivity, \* VolumeActionDispatcherImpl.sensitivityLevel, in percent
  lastConfig            \* history: the last configuration call or request

dvars == <<currentVolumeState, silenceTimer, silenceTimeoutMs,
           timers, lastTimerId, emitted, quietDue, lastOp>>

pvars == <<phase, configSensitivity, attentionKeywords, voiceSensitivity, profiles,
           transcriptionService, isStreaming, liveConnection, conns,
           retryQueue, isRetrying, drainLoops, retrySegment, retryDelayMs, retryCount, retryElapsed,
           currentAudioSegmentId, lastSent, audioFailures,
           nextFrame, ignored, lastEvent, errorListener, retryAttempts, lastStt>>

svars == <<errorListener, retryAttempts, lastStt>>

hvars == <<wss, heartbeatIn, clients, sessions, nextMessage, lastHub>>

\* AttentionDetectionEngineImpl (its keywords are attentionKeywords above)
evars == <<userName, llmProvider, llmEnabled, uncertaintyThreshold, lastDetect>>

\* ErrorHandler
fvars == <<failureTrackers, lastRecord>>

\* CircuitBreaker
bvars == <<config, state, failureCount, successCount, lastFailureTime, pending,
           pendingProbes, lastExecute>>

\* VoiceProfileServiceImpl, called directly
rvars == <<lastProfile>>

\* ConfigurationManagerImpl and the dispatcher's copy of the sensitivity
cvars == <<storedConfig, configFile, dispatcherSensitivity, lastConfig>>

yvars == <<rvars, cvars>>

xvars == <<evars, fvars, bvars, yvars>>

vars == <<dvars, pvars, hvars, xvars>>

\* the dispatcher's fields and the runtime's timers
dstate == <<currentVolumeState, silenceTimer, silenceTimeoutMs, timers,
            lastTimerId, emitted>>

\* The part of the dispatcher that its methods read and write, as one record.
DispState ==
  [state |-> currentVolumeState, timer |-> silenceTimer, timers |-> timers,
   emitted |-> emitted, lastId |-> lastTimerId]

Min(S) == CHOOSE x \in S : \A y \in S : x <= y
Max(a, b) == IF a >= b THEN a ELSE b

\* setTimeout returns a new handle: one that no pending timer has and that
\* differs from the handle it returned last.  Handles are taken in rotation.
FreshTimerId(d) ==
  LET free == {i \in 1..Max(MaxTimerIds, Cardinality(d.timers) + 2) :
                 i # d.lastId /\ \A t \in d.timers : t.id # i}
      after == {i \in free : i > d.lastId}
  IN IF after # {} THEN Min(after) ELSE Min(free)

\* stopSilenceTimer(): clearTimeout on the held handle, handle := null
stopSilenceTimer(d) ==
  IF d.timer # Null
    THEN [d EXCEPT !.timers = {t \in @ : t.id # d.timer}, !.timer = Null]
    ELSE d

\* faulty variant: the pending timer is not cleared before a new one is set
startSilenceTimer_NoStop(d) ==
  LET id == FreshTimerId(d)
  IN [d EXCEPT !.timers = @ \cup {[id |-> id, remaining |-> silenceTimeoutMs]},
               !.timer = id,
               !.lastId = id]

\* startSilenceTimer(): stop, then setTimeout(onSilenceTimeout, silenceTimeoutMs)
startSilenceTimer(d) ==
  LET d1 == stopSilenceTimer(d)
      id == FreshTimerId(d)
  IN [d1 EXCEPT !.timers = @ \cup {[id |-> id, remaining |-> silenceTimeoutMs]},
                !.timer = id,
                !.lastId = id]

\* resetSilenceTimer(): restart only if a timer is held
resetSilenceTimer(d) ==
  IF d.timer # Null THEN startSilenceTimer(stopSilenceTimer(d)) ELSE d

createLowerVolumeAction(decision, confidence) ==
  [type |-> "LOWER_VOLUME", triggerReason |-> decision, confidence |-> confidence]

createRestoreVolumeAction ==
  [type |-> "RESTORE_VOLUME", triggerReason |-> "IGNORE", confidence |-> ConfRestore]

\* faulty variant: the state is set to lowered whatever the action
sendAction_StateStaysLowered(d, action) ==
  IF action.type = "LOWER_VOLUME" /\ d.state = "lowered" THEN d
  ELSE IF action.type = "RESTORE_VOLUME" /\ d.state = "normal" THEN d
  ELSE [d EXCEPT !.state = "lowered",
                 !.emitted = Append(@, action)]

\* sendAction(action): only a state-changing action is emitted
sendAction(d, action) ==
  IF action.type = "LOWER_VOLUME" /\ d.state = "lowered" THEN d
  ELSE IF action.type = "RESTORE_VOLUME" /\ d.state = "normal" THEN d
  ELSE [d EXCEPT !.state = IF action.type = "LOWER_VOLUME" THEN "lowered" ELSE "normal",
                 !.emitted = Append(@, action)]

\* faulty variant: DEFINITELY_TO_ME is gated by the sensitivity like PROBABLY_TO_ME
dispatchAction_DefiniteGated(d, decision, sensitivity) ==
  CASE decision = "DEFINITELY_TO_ME" ->
         IF sensitivity > ProbableThreshold
           THEN startSilenceTimer(
               sendAction(resetSilenceTimer(d),
                          createLowerVolumeAction(decision, ConfDefinite)))
           ELSE d
    [] decision = "PROBABLY_TO_ME" ->
         IF sensitivity > ProbableThreshold
           THEN startSilenceTimer(
                  sendAction(resetSilenceTimer(d),
                             createLowerVolumeAction(decision, ConfProbable)))
           ELSE d
    [] decision = "IGNORE" ->
         IF d.state = "lowered" /\ d.timer = Null
           THEN startSilenceTimer(d)
           ELSE d

\* faulty variant: the threshold test is >= 0.5
dispatchAction_ProbableAtThreshold(d, decision, sensitivity) ==
  CASE decision = "DEFINITELY_TO_ME" ->
         startSilenceTimer(
           sendAction(resetSilenceTimer(d),
                      createLowerVolumeAction(decision, ConfDefinite)))
    [] decision = "PROBABLY_TO_ME" ->
         IF sensitivity >= ProbableThreshold
           THEN startSilenceTimer(
                  sendAction(resetSilenceTimer(d),
                             createLowerVolumeAction(decision, ConfProbable)))
           ELSE d
    [] decision = "IGNORE" ->
         IF d.state = "lowered" /\ d.timer = Null
           THEN startSilenceTimer(d)
           ELSE d

\* faulty variant: a verdict that sends no command leaves the timer alone
dispatchAction_NoRestartWhenLowered(d, decision, sensitivity) ==
  CASE decision = "DEFINITELY_TO_ME" ->
         IF d.state = "normal"
           THEN startSilenceTimer(
               sendAction(resetSilenceTimer(d),
                          createLowerVolumeAction(decision, ConfDefinite)))
           ELSE d
    [] decision = "PROBABLY_TO_ME" ->
         IF sensitivity > ProbableThreshold /\ d.state = "normal"
           THEN startSilenceTimer(
                  sendAction(resetSilenceTimer(d),
                             createLowerVolumeAction(decision, ConfProbable)))
           ELSE d
    [] decision = "IGNORE" ->
         IF d.state = "lowered" /\ d.timer = Null
           THEN startSilenceTimer(d)
           ELSE d

\* faulty variant: IGNORE restarts the timer whenever the volume is lowered
dispatchAction_IgnoreResets(d, decision, sensitivity) ==
  CASE decision = "DEFINITELY_TO_ME" ->
         startSilenceTimer(
           sendAction(resetSilenceTimer(d),
                      createLowerVolumeAction(decision, ConfDefinite)))
    [] decision = "PROBABLY_TO_ME" ->
         IF sensitivity > ProbableThreshold
           THEN startSilenceTimer(
                  sendAction(resetSilenceTimer(d),
                             createLowerVolumeAction(decision, ConfProbable)))
           ELSE d
    [] decision = "IGNORE" ->
         IF d.state = "lowered"
           THEN startSilenceTimer(d)
           ELSE d

\* dispatchAction(decision, sensitivity)
dispatchAction(d, decision, sensitivity) ==
  CASE decision = "DEFINITELY_TO_ME" ->
         startSilenceTimer(
           sendAction(resetSilenceTimer(d),
                      createLowerVolumeAction(decision, ConfDefinite)))
    [] decision = "PROBABLY_TO_ME" ->
         IF sensitivity > ProbableThreshold
           THEN startSilenceTimer(
                  sendAction(resetSilenceTimer(d),
                             createLowerVolumeAction(decision, ConfProbable)))
           ELSE d
    [] decision = "IGNORE" ->
         IF d.state = "lowered" /\ d.timer = Null
           THEN startSilenceTimer(d)
           ELSE d

\* faulty variant: the callback clears the handle but sends no RESTORE
onSilenceTimeout_NoRestore(d) ==
  [d EXCEPT !.timer = Null]

\* onSilenceTimeout(): the callback of a timer that fired
onSilenceTimeout(d) ==
  LET d1 == [d EXCEPT !.timer = Null]
  IN IF d1.state = "lowered" THEN sendAction(d1, createRestoreVolumeAction) ELSE d1

forceRestoreVolume(d) ==
  LET d1 == stopSilenceTimer(d)
  IN IF d1.state = "lowered" THEN sendAction(d1, createRestoreVolumeAction) ELSE d1

\* faulty variant: the volume is lowered and no timer is started
forceLowerVolume_NoTimer(d) ==
  sendAction(stopSilenceTimer(d),
             createLowerVolumeAction("DEFINITELY_TO_ME", ConfForce))

forceLowerVolume(d) ==
  startSilenceTimer(
    sendAction(stopSilenceTimer(d),
               createLowerVolumeAction("DEFINITELY_TO_ME", ConfForce)))

Last(seq) == seq[Len(seq)]

\* Write a dispatcher record back to the variables.  The command log is
\* explored up to MaxEmitted entries; a RESTORE is never held back.
Commit(d) ==
  /\ IF Len(d.emitted) <= MaxEmitted THEN TRUE
     ELSE Last(d.emitted).type = "RESTORE_VOLUME"
  /\ currentVolumeState' = d.state
  /\ silenceTimer' = d.timer
  /\ timers' = d.timers
  /\ emitted' = d.emitted
  /\ lastTimerId' = d.lastId

\* The record kept in lastOp: the operation, its arguments (arg is the
\* sensitivity of dispatchAction, the timer id of onSilenceTimeout, the
\* value of setSilenceTimeout) and the dispatcher state it started from.
Op(name, decision, arg) ==
  [op |-> name, decision |-> decision, arg |-> arg,
   from |-> currentVolumeState, hadTimer |-> (silenceTimer # Null)]

\* =========================================================== the pipeline
\* An audio frame is known by its number and by the feature vector that
\* extractFeatures computes from it; a profile's voiceSignature is the
\* feature vector of its training sample (calculateSimilarity is a cosine,
\* so the normalisation of the signature does not change it).  The vectors
\* used have integer magnitudes, so similarities are exact hundredths.
Voices == {<<1, 0>>, <<3, 4>>, <<0, 0>>}
TrainingVoices == {<<0, 1>>}
ProfileIds == {1}
RegistryIds == {1, 2}
RegistryVoices == {<<0, 1>>, <<3, 4>>, <<0, 0>>}
LevelInputs == {-10, 0, 50, 51, 100, 110}

\* A text is the sequence of its characters.
Chars(string) == [i \in 1..Len(string) |-> SubSeq(string, i, i)]

\* the transcript texts the speech service delivers
Texts == {Chars("hey there"), Chars("can you help?"), Chars("nice weather"),
          Chars("computer stop"), Chars("")}

DefaultKeywords == {Chars("hey"), Chars("hello"), Chars("excuse me"), Chars("hi")}

\* what the engine is asked about and configured with
EngineTexts ==
  {Chars("Hey there"), Chars("can you help?"), Chars("nice weather"), Chars("so? you see"),
   Chars("this is nice"), Chars("Sam is late?"), Chars("Computer stop"), Chars("   "),
   Chars("the quick brown fox jumps over the lazy dog near me")}
EngineSensitivities == {50, 80, 100}
LLMConfidences == {0, 49, 50, 62, 63, 79, 80, 100}
LLMOutcomes == {[throws |-> FALSE, confidence |-> c] : c \in LLMConfidences}
                 \cup {[throws |-> TRUE, confidence |-> 0]}
ThresholdInputs == {0, 10, 50, 100, 150}
UserNameInputs == {Chars(""), Chars(" Sam ")}
KeywordInputs == {Chars("Computer"), Chars(" ")}

\* the configurations a breaker is constructed with
FailureThresholdInputs == {0, 2}
ResetTimeoutInputs == {0, 1}
HalfOpenInputs == {0, 1}

\* the bodies of PUT /config: has names the fields the body carries
ConfigFields == {"sensitivityLevel", "attentionKeywords", "userName", "silenceTimeoutMs",
                 "deepgramApiKey", "llmEnabled"}
BodySensitivities == {50, 150}
BodyTimeouts == {0, 2}
ConfigBodies ==
  {[has |-> fields, sensitivityLevel |-> level, attentionKeywords |-> {Chars("computer")},
    userName |-> Chars("Sam"), silenceTimeoutMs |-> timeoutMs, deepgramApiKey |-> TRUE,
    llmEnabled |-> FALSE] :
     fields \in {ConfigFields \ {"llmEnabled"}, {"sensitivityLevel", "silenceTimeoutMs"},
                 {"attentionKeywords", "deepgramApiKey"}, {}},
     level \in BodySensitivities, timeoutMs \in BodyTimeouts}
ConfigLevelInputs == {-10, 0, 100, 150}
ConfigSetTimeoutInputs == {0, 1}
ConfigKeywords == {Chars(""), Chars(" "), Chars(" Computer"), Chars("hey")}
\* process.env: SENSITIVITY_LEVEL ("" when unset) and SILENCE_TIMEOUT_MS
\* (-1 when unset), DEEPGRAM_API_KEY and LLM_ENABLED unset
EnvInputs == {[SENSITIVITY_LEVEL |-> "", SILENCE_TIMEOUT_MS |-> -1],
              [SENSITIVITY_LEVEL |-> "low", SILENCE_TIMEOUT_MS |-> 0],
              [SENSITIVITY_LEVEL |-> "loud", SILENCE_TIMEOUT_MS |-> 2]}

\* the configurations loadConfiguration may find
ConfigSensitivityInputs == {50, 85}
ConfigKeywordInputs == {{Chars("hey"), Chars("computer")}}
ConfigTimeoutInputs == {0, 1}

\* lastEvent of a step made by the Transcript handler: whether it dropped
\* the transcript or passed it to handleTranscript, whether the transcript
\* was partial, and what handleTranscript did with it
Event(name, partial, w) ==
  [op |-> name, partial |-> partial,
   broadcast |-> w.broadcast, analysed |-> w.analysed,
   stream |-> w.stream, model |-> w.model, payload |-> w.payload]

NoEvent == [op |-> "-", partial |-> FALSE, broadcast |-> FALSE, analysed |-> FALSE,
            stream |-> Null, model |-> Null, payload |-> Null]

\* lastOp of a step that is no call on the dispatcher
NoOp == [op |-> "-", decision |-> "-", arg |-> 0, from |-> "normal", hadTimer |-> FALSE]

\* ------------------------------------------------ VoiceProfileServiceImpl
Dot(a, b) == a[1] * b[1] + a[2] * b[2]
Sqrt(n) == CHOOSE r \in 0..n : r * r = n

\* cosine similarity mapped to [0, 1], in hundredths
calculateSimilarity(features1, features2) ==
  LET magnitude1 == Sqrt(Dot(features1, features1))
      magnitude2 == Sqrt(Dot(features2, features2))
  IN IF magnitude1 = 0 \/ magnitude2 = 0 THEN 0
     ELSE Max(0, Min({100, (50 * (Dot(features1, features2) + magnitude1 * magnitude2))
                             \div (magnitude1 * magnitude2)}))

NoMatch == [isMatch |-> FALSE, confidence |-> 0, profileId |-> Null]

\* the loop of matchesIgnoreList over the profiles from index i on
RECURSIVE BestMatch(_, _, _, _, _)
BestMatch(ps, i, chunkFeatures, sens, bestMatch) ==
  IF i > Len(ps) THEN bestMatch
  ELSE LET similarity == calculateSimilarity(chunkFeatures, ps[i].voiceSignature)
       IN BestMatch(ps, i + 1, chunkFeatures, sens,
            IF similarity > bestMatch.confidence
              THEN [isMatch |-> similarity >= sens,
                    confidence |-> similarity,
                    profileId |-> IF similarity >= sens THEN ps[i].id ELSE Null]
              ELSE bestMatch)

\* matchesIgnoreList(audioChunk): the result and the profiles after
\* updateLastUsed of the matched one
matchesIgnoreList(ps, sens, chunkFeatures) ==
  LET bestMatch == IF Len(ps) = 0 THEN NoMatch
                   ELSE BestMatch(ps, 1, chunkFeatures, sens, NoMatch)
  IN [result |-> bestMatch,
      profiles |-> IF bestMatch.isMatch /\ bestMatch.profileId # Null
                     THEN [i \in DOMAIN ps |->
                             IF ps[i].id = bestMatch.profileId
                               THEN [ps[i] EXCEPT !.matchCount = @ + 1]
                               ELSE ps[i]]
                     ELSE ps]

\* addProfile(audioSamples, profileId): Map.set keeps the position of a key
\* that is already present
addProfile(ps, audioSamples, profileId) ==
  IF Len(audioSamples) = 0 THEN ps
  ELSE LET profile == [id |-> profileId, voiceSignature |-> audioSamples[1],
                       matchCount |-> 0]
       IN IF \E i \in DOMAIN ps : ps[i].id = profileId
            THEN [i \in DOMAIN ps |-> IF ps[i].id = profileId THEN profile ELSE ps[i]]
            ELSE Append(ps, profile)

\* a removeProfile that reports the profile but keeps it
removeProfile_KeepsProfile(ps, profileId) ==
  [existed |-> \E i \in DOMAIN ps : ps[i].id = profileId, profiles |-> ps]

\* removeProfile(profileId): what it returns and the profiles after
removeProfile(ps, profileId) ==
  LET existed == \E i \in DOMAIN ps : ps[i].id = profileId
  IN [existed |-> existed,
      profiles |-> IF existed THEN SelectSeq(ps, LAMBDA q : q.id # profileId) ELSE ps]

\* listProfiles(): one entry per profile of the Map, in its order
listProfiles(ps) ==
  [i \in DOMAIN ps |-> [id |-> ps[i].id, matchCount |-> ps[i].matchCount]]

\* setSensitivityLevel(level), in percent: a level outside [0, 1] throws
setSensitivityLevel(sens, level) ==
  IF level < 0 \/ level > 100 THEN sens ELSE level

\* ------------------------------------------- AttentionDetectionEngineImpl
\* The regular expressions of the engine, character by character.
\* String.prototype.substring, positions from 1 and both ends included
substring(text, i, j) ==
  IF 1 <= i /\ i <= j /\ j <= Len(text) THEN SubSeq(text, i, j) ELSE <<>>

\* the character at position i, "" outside the text
At(text, i) == IF i \in DOMAIN text THEN text[i] ELSE ""

\* the lower-case letter of every upper-case letter
LowerCase ==
  [A |-> "a", B |-> "b", C |-> "c", D |-> "d", E |-> "e", F |-> "f", G |-> "g",
   H |-> "h", I |-> "i", J |-> "j", K |-> "k", L |-> "l", M |-> "m", N |-> "n",
   O |-> "o", P |-> "p", Q |-> "q", R |-> "r", S |-> "s", T |-> "t", U |-> "u",
   V |-> "v", W |-> "w", X |-> "x", Y |-> "y", Z |-> "z"]
UpperCase == DOMAIN LowerCase
WordChars == UpperCase \cup {LowerCase[c] : c \in UpperCase}
               \cup {"0", "1", "2", "3", "4", "5", "6", "7", "8", "9", "_"}

\* \w and \s
IsWordChar(c) == c \in WordChars
IsSpace(c) == c \in {" ", "\t", "\n"}

toLowerCase(text) ==
  [i \in DOMAIN text |-> IF text[i] \in UpperCase THEN LowerCase[text[i]] ELSE text[i]]

trim(text) ==
  IF ~IsSpace(At(text, 1)) /\ ~IsSpace(At(text, Len(text))) THEN text
  ELSE LET kept == {i \in DOMAIN text : ~IsSpace(text[i])}
       IN IF kept = {} THEN <<>>
          ELSE substring(text, CHOOSE i \in kept : \A j \in kept : i <= j,
                               CHOOSE i \in kept : \A j \in kept : i >= j)

\* String.prototype.includes
Includes(text, words) ==
  \/ words = <<>>
  \/ \E i \in 1..(Len(text) - Len(words) + 1) :
        text[i] = words[1] /\ substring(text, i, i + Len(words) - 1) = words

StartsWith(text, words) ==
  /\ Len(words) <= Len(text)
  /\ words = <<>> \/ (text[1] = words[1] /\ substring(text, 1, Len(words)) = words)

\* /\bword\b/ matches from position i
WordAt(text, word, i) ==
  /\ text[i] = word[1]
  /\ i + Len(word) - 1 <= Len(text)
  /\ substring(text, i, i + Len(word) - 1) = word
  /\ ~IsWordChar(At(text, i - 1))
  /\ ~IsWordChar(At(text, i + Len(word)))

HasWord(text, word) == \E i \in DOMAIN text : WordAt(text, word, i)

QuestionWords ==
  {Chars(q) : q \in {"what", "where", "when", "who", "why", "how", "can", "could", "would",
                     "will", "do", "does", "did", "is", "are", "was", "were"}}
You == Chars("you")
Your == Chars("your")
Greetings == {Chars("hey"), Chars("hi"), Chars("hello")}
FormalAddresses == {Chars("sir"), Chars("ma'am"), Chars("miss"), Chars("mister")}
PoliteOpenings == {Chars("excuse me"), Chars("pardon me")}
Look == Chars("look")
Listen == Chars("listen")

\* the matches of the three questionPatterns
questionPatterns(text) ==
  {p \in {"?$", "^(what|...)", "(you|your).*?"} :
     \/ p = "?$" /\ At(text, Len(text)) = "?"
     \/ p = "^(what|...)" /\ \E q \in QuestionWords :
                                StartsWith(text, q) /\ ~IsWordChar(At(text, Len(q) + 1))
     \/ p = "(you|your).*?" /\ \E y \in {You, Your}, i \in DOMAIN text :
                                /\ WordAt(text, y, i)
                                /\ \E j \in (i + Len(y))..Len(text) :
                                     /\ text[j] = "?"
                                     /\ \A k \in (i + Len(y))..(j - 1) : text[k] # "\n"}

\* the matches of the five directAddressPatterns
directAddressPatterns(text) ==
  {p \in {"^(hey|hi|hello)", "(sir|...)", "^(excuse me|pardon me)", "look", "listen"} :
     \/ p = "^(hey|hi|hello)" /\ \E g \in Greetings :
                                   /\ StartsWith(text, g)
                                   /\ \E k \in DOMAIN text :
                                        /\ \A i \in (Len(g) + 1)..(Len(g) + k) :
                                              IsSpace(At(text, i))
                                        /\ IsWordChar(At(text, Len(g) + k + 1))
     \/ p = "(sir|...)" /\ \E a \in FormalAddresses : HasWord(text, a)
     \/ p = "^(excuse me|pardon me)" /\ \E a \in PoliteOpenings : StartsWith(text, a)
     \/ p = "look" /\ HasWord(text, Look)
     \/ p = "listen" /\ HasWord(text, Listen)}

\* The engine as a record, for the operators below.
Engine ==
  [keywords |-> attentionKeywords, userName |-> userName, llmProvider |-> llmProvider,
   llmEnabled |-> llmEnabled, uncertaintyThreshold |-> uncertaintyThreshold]

\* faulty variant: the user name is not looked for
findMatchedKeywords_IgnoresUserName(e, text) ==
  {k \in e.keywords : Includes(text, toLowerCase(k))}

\* the matched keywords, the user name among them
findMatchedKeywords(e, text) ==
  {k \in e.keywords : Includes(text, toLowerCase(k))}
    \cup (IF e.userName # <<>> /\ Includes(text, toLowerCase(e.userName))
            THEN {e.userName} ELSE {})

findMatchedPatterns(text) == questionPatterns(text) \cup directAddressPatterns(text)

\* in percent
calculateRuleBasedConfidence(text) ==
  LET confidence == (IF Includes(text, <<"?">>) THEN 20 ELSE 0)
                    + (IF HasWord(text, You) THEN 15 ELSE 0)
                    + (IF HasWord(text, Your) THEN 10 ELSE 0)
                    + (IF Len(text) < 50 THEN 10 ELSE 0)
                    + (IF At(text, 1) \in UpperCase THEN 5 ELSE 0)
  IN IF confidence < 100 THEN confidence ELSE 100

Detection(decision, confidence, keywords, patterns, usedLLM, events, calls, threw) ==
  [decision |-> decision, confidence |-> confidence, matchedKeywords |-> keywords,
   matchedPatterns |-> patterns, usedLLM |-> usedLLM, events |-> events,
   llmCalls |-> calls, threw |-> threw]

\* faulty variant: the provider's confidence decides alone
invokeLLM_IgnoresSensitivity(text, sensitivity_, llm, events) ==
  LET adjustedConfidence == llm.confidence * 100
      decision == IF adjustedConfidence >= 8000 THEN "DEFINITELY_TO_ME"
                  ELSE IF adjustedConfidence >= 5000 THEN "PROBABLY_TO_ME"
                  ELSE "IGNORE"
  IN Detection(decision, llm.confidence, {}, {}, TRUE,
               events \o <<"llm_invoked", "llm_result">>, 1, llm.throws)

\* invokeLLM(text, sensitivity): llm is what the provider's analyze does,
\* [throws, confidence]; confidence and sensitivity in percent, so the
\* adjusted confidence is their product in 1/10000
invokeLLM(text, sensitivity_, llm, events) ==
  IF llm.throws
    THEN Detection("-", 0, {}, {}, FALSE, events \o <<"llm_invoked">>, 1, TRUE)
  ELSE
  LET adjustedConfidence == llm.confidence * sensitivity_
      decision == IF adjustedConfidence >= 8000 THEN "DEFINITELY_TO_ME"
                  ELSE IF adjustedConfidence >= 5000 THEN "PROBABLY_TO_ME"
                  ELSE "IGNORE"
  IN Detection(decision, llm.confidence, {}, {}, TRUE,
               events \o <<"llm_invoked", "llm_result">>, 1, FALSE)

\* faulty variant: the error of the provider goes on to the caller
llmFallback_Rethrows(r) == r

\* the catch block around the call of invokeLLM: llm_fallback is emitted
\* and the error goes no further
llmFallback(r) == [r EXCEPT !.events = Append(@, "llm_fallback"), !.threw = FALSE]

\* faulty variant: the provider is asked whatever the rule-based confidence
analyzeWithDetails_AsksWhenCertain(e, transcriptText, sensitivity_, llm) ==
  LET text == trim(toLowerCase(transcriptText))
      matchedKeywords == findMatchedKeywords(e, text)
      matchedPatterns == findMatchedPatterns(text)
      ruleBasedConfidence == calculateRuleBasedConfidence(text)
      ignore(events, calls) ==
        Detection("IGNORE", 100 - ruleBasedConfidence, {}, {}, FALSE,
                  events \o <<"detection">>, calls, FALSE)
  IN IF text = <<>> THEN Detection("IGNORE", 100, {}, {}, FALSE, <<>>, 0, FALSE)
     ELSE IF matchedKeywords # {}
       THEN Detection("DEFINITELY_TO_ME", 95, matchedKeywords, matchedPatterns, FALSE,
                      <<"detection">>, 0, FALSE)
     ELSE IF matchedPatterns # {}
       THEN Detection("PROBABLY_TO_ME", 70, {}, matchedPatterns, FALSE,
                      <<"detection">>, 0, FALSE)
     ELSE IF e.llmEnabled /\ e.llmProvider
       THEN LET llmResult == invokeLLM(text, sensitivity_, llm, <<>>)
            IN IF ~llmResult.threw THEN llmResult
               ELSE LET caught == llmFallback(llmResult)
                    IN IF caught.threw THEN caught
                       ELSE ignore(caught.events, caught.llmCalls)
     ELSE ignore(<<>>, 0)

analyzeWithDetails(e, transcriptText, sensitivity_, llm) ==
  LET text == trim(toLowerCase(transcriptText))
      matchedKeywords == findMatchedKeywords(e, text)
      matchedPatterns == findMatchedPatterns(text)
      ruleBasedConfidence == calculateRuleBasedConfidence(text)
      ignore(events, calls) ==
        Detection("IGNORE", 100 - ruleBasedConfidence, {}, {}, FALSE,
                  events \o <<"detection">>, calls, FALSE)
  IN IF text = <<>> THEN Detection("IGNORE", 100, {}, {}, FALSE, <<>>, 0, FALSE)
     ELSE IF matchedKeywords # {}
       THEN Detection("DEFINITELY_TO_ME", 95, matchedKeywords, matchedPatterns, FALSE,
                      <<"detection">>, 0, FALSE)
     ELSE IF matchedPatterns # {}
       THEN Detection("PROBABLY_TO_ME", 70, {}, matchedPatterns, FALSE,
                      <<"detection">>, 0, FALSE)
     ELSE IF ruleBasedConfidence < e.uncertaintyThreshold /\ e.llmEnabled /\ e.llmProvider
       THEN LET llmResult == invokeLLM(text, sensitivity_, llm, <<>>)
            IN IF ~llmResult.threw THEN llmResult
               ELSE LET caught == llmFallback(llmResult)
                    IN IF caught.threw THEN caught
                       ELSE ignore(caught.events, caught.llmCalls)
     ELSE ignore(<<>>, 0)

\* the provider the backend leaves unset
NoLLM == [throws |-> FALSE, confidence |-> 0]

\* analyzeTranscript(text, sensitivity) of the engine e
analyzeTranscript(e, text, sensitivity_) == analyzeWithDetails(e, text, sensitivity_, NoLLM).decision

\* ------------------------------------------------ TranscriptionServiceImpl
\* The backend and its services as one record, for the handlers below.
\* threw: an exception is propagating; broadcast, analysed, verdict: the
\* handler called broadcastTranscript, analyzeTranscript, dispatchAction
\* (with that decision).
World ==
  [d |-> DispState, profiles |-> profiles,
   streaming |-> isStreaming, live |-> liveConnection, conns |-> conns,
   queue |-> retryQueue, retrying |-> isRetrying, loops |-> drainLoops,
   segment |-> retrySegment, delay |-> retryDelayMs,
   tries |-> retryCount, elapsed |-> retryElapsed, listener |-> errorListener,
   overflow |-> FALSE, discarded |-> {},
   segmentId |-> currentAudioSegmentId, sent |-> lastSent,
   stream |-> Null, model |-> Null, payload |-> Null,
   failures |-> audioFailures, ignored |-> ignored,
   broadcast |-> FALSE, analysed |-> FALSE,
   threw |-> FALSE, verdict |-> "-"]

\* calls of sendAudio made before the first state explored, and the
\* retries of the oldest of their segments that have failed by then
QueuedAtStart == {0, 99}
RetriedAtStart == {0, 2, 4}

Pow2(n) == IF n = 0 THEN 1 ELSE IF n = 1 THEN 2 ELSE IF n = 2 THEN 4
           ELSE IF n = 3 THEN 8 ELSE 16

isConnected(w) == w.streaming /\ w.live # Null

\* closeStream(): finish() the live connection and forget it
closeStream(w) ==
  LET w1 == IF w.live # Null
              THEN [w EXCEPT !.conns[w.live].finished = TRUE, !.live = Null]
              ELSE w
  IN [w1 EXCEPT !.streaming = FALSE]

\* startStream(): listen.live() opens a new connection, or throws
startStream(w, liveThrows) ==
  LET w0 == IF w.streaming THEN closeStream(w) ELSE w
      w1 == [w0 EXCEPT !.segmentId = @ + 1]
  IN IF liveThrows THEN [w1 EXCEPT !.threw = TRUE]
     ELSE [w1 EXCEPT !.conns = Append(@, [open |-> TRUE, finished |-> FALSE,
                                          received |-> {},
                                          segmentId |-> w1.segmentId]),
                     !.live = Len(w1.conns) + 1,
                     !.streaming = TRUE]

\* the while loop of processRetryQueue, up to its next await or its end
RECURSIVE retryLoop(_)
retryLoop(w) ==
  IF w.queue = <<>>
    THEN [w EXCEPT !.retrying = FALSE, !.loops = @ - 1, !.segment = Null, !.delay = 0,
                   !.tries = 0, !.elapsed = 0]
    ELSE LET segment == Head(w.queue)
         IN IF segment.retryCount >= MAX_RETRY_COUNT
              THEN retryLoop([w EXCEPT !.queue = Tail(@),
                                       !.discarded = @ \cup {segment.frame}])
              ELSE [w EXCEPT !.segment = segment.frame,
                             !.tries = segment.retryCount,
                             !.delay = BASE_RETRY_DELAY_MS * Pow2(segment.retryCount),
                             !.elapsed = 0]

processRetryQueue(w) ==
  IF w.retrying \/ w.queue = <<>> THEN w
  ELSE retryLoop([w EXCEPT !.retrying = TRUE, !.loops = @ + 1])

\* faulty variant: a full queue keeps its oldest segment
queueForRetry_NoShift(w, frame) ==
  LET w1 == [w EXCEPT !.queue = Append(@, [frame |-> frame, retryCount |-> 0])]
  IN IF ~w1.retrying THEN processRetryQueue(w1) ELSE w1

queueForRetry(w, frame) ==
  LET full == Len(w.queue) >= MAX_QUEUE_SIZE
      q == IF full THEN Tail(w.queue) ELSE w.queue
      w1 == [w EXCEPT !.queue = Append(q, [frame |-> frame, retryCount |-> 0]),
                      !.overflow = full]
  IN IF ~w1.retrying THEN processRetryQueue(w1) ELSE w1

\* this.emit('error', ...): an EventEmitter with no listener for 'error'
\* throws what it was asked to emit
emitError(w) == IF w.listener THEN w ELSE [w EXCEPT !.threw = TRUE]

\* sendAudio(chunk): send on the live connection; queue when not streaming;
\* when send() throws, emit 'error' and then queue
sendAudio(w, frame, sendThrows) ==
  IF ~w.streaming \/ w.live = Null THEN queueForRetry(w, frame)
  ELSE IF sendThrows
    THEN LET w1 == emitError(w)
         IN IF w1.threw THEN w1 ELSE queueForRetry(w1, frame)
  ELSE [w EXCEPT !.conns[w.live].received = @ \cup {frame}, !.sent = frame]

\* faulty variant: every retry waits BASE_RETRY_DELAY_MS, whatever its number
afterRetryDelay_NoBackoff(w, sendThrows) ==
  LET failed == [i \in DOMAIN w.queue |->
                   IF w.queue[i].frame = w.segment
                     THEN [w.queue[i] EXCEPT !.retryCount = w.tries + 1]
                     ELSE w.queue[i]]
      w1 == retryLoop(
              IF w.streaming /\ w.live # Null /\ ~sendThrows
                THEN [w EXCEPT !.conns[w.live].received = @ \cup {w.segment},
                               !.sent = w.segment,
                               !.queue = Tail(@)]
                ELSE [w EXCEPT !.queue = failed])
  IN IF w1.retrying THEN [w1 EXCEPT !.delay = BASE_RETRY_DELAY_MS] ELSE w1

\* faulty variant: a failed attempt is not counted
afterRetryDelay_NoCount(w, sendThrows) ==
  retryLoop(
    IF w.streaming /\ w.live # Null /\ ~sendThrows
      THEN [w EXCEPT !.conns[w.live].received = @ \cup {w.segment},
                     !.sent = w.segment,
                     !.queue = Tail(@)]
      ELSE w)

\* processRetryQueue after its delay: try the segment it holds, then loop.
\* The segment is the object the loop read at the head of the queue before
\* the delay; shift() removes whatever is at the head after it.
afterRetryDelay(w, sendThrows) ==
  LET failed == [i \in DOMAIN w.queue |->
                   IF w.queue[i].frame = w.segment
                     THEN [w.queue[i] EXCEPT !.retryCount = w.tries + 1]
                     ELSE w.queue[i]]
  IN retryLoop(
       IF w.streaming /\ w.live # Null
         THEN IF sendThrows
                THEN [w EXCEPT !.queue = failed]
                ELSE [w EXCEPT !.conns[w.live].received = @ \cup {w.segment},
                               !.sent = w.segment,
                               !.queue = Tail(@)]
         ELSE [w EXCEPT !.queue = failed])

\* ------------------------------------------ ConversationalAwarenessBackend
\* the catch block of processAudioChunk: record the failure, do not rethrow
caught(w) ==
  IF w.threw THEN [w EXCEPT !.failures = @ + 1, !.threw = FALSE] ELSE w

\* faulty variant: a frame that matches the ignore list is transcribed all the same
processAudioChunk_NoGate(w, frame, chunkFeatures, liveThrows, sendThrows) ==
  LET m == matchesIgnoreList(w.profiles, voiceSensitivity, chunkFeatures)
      w1 == [w EXCEPT !.profiles = m.profiles,
                      !.ignored = IF m.result.isMatch THEN @ \cup {frame} ELSE @]
  IN IF transcriptionService
       THEN LET w2 == IF ~isConnected(w1) THEN startStream(w1, liveThrows) ELSE w1
            IN IF w2.threw
                 THEN caught(w2)
                 ELSE caught(sendAudio(w2, frame, sendThrows))
       ELSE w1

\* processAudioChunk(clientId, chunk)
processAudioChunk(w, frame, chunkFeatures, liveThrows, sendThrows) ==
  LET m == matchesIgnoreList(w.profiles, voiceSensitivity, chunkFeatures)
      w1 == [w EXCEPT !.profiles = m.profiles]
  IN IF m.result.isMatch
       THEN [w1 EXCEPT !.ignored = @ \cup {frame}]
       ELSE IF transcriptionService
         THEN LET w2 == IF ~isConnected(w1) THEN startStream(w1, liveThrows) ELSE w1
              IN IF w2.threw
                   THEN caught(w2)
                   ELSE caught(sendAudio(w2, frame, sendThrows))
         ELSE w1

\* faulty variant: partial transcripts are analysed and dispatched like final ones
handleTranscript_AnalysesPartials(w, frame, text, isPartial) ==
  LET decision == analyzeTranscript(Engine, text, configSensitivity)
  IN [w EXCEPT !.broadcast = TRUE, !.payload = Null,
               !.analysed = TRUE,
               !.verdict = decision,
               !.d = dispatchAction(w.d, decision, configSensitivity)]

\* handleTranscript(text, confidence, isPartial, transcriptId)
handleTranscript(w, frame, text, isPartial) ==
  LET w1 == [w EXCEPT !.broadcast = TRUE, !.payload = Null]
      decision == analyzeTranscript(Engine, text, configSensitivity)
  IN IF isPartial THEN w1
     ELSE [w1 EXCEPT !.analysed = TRUE,
                     !.verdict = decision,
                     !.d = dispatchAction(w1.d, decision, configSensitivity)]

\* the LiveTranscriptionEvents.Transcript handler: blank text is dropped,
\* the rest is emitted as 'partial_transcript' (text and confidence) or
\* as 'final_transcript' (a TranscriptModel with currentAudioSegmentId);
\* the backend's listeners hand text and confidence to handleTranscript
onTranscript(w, frame, text, isFinal) ==
  IF trim(text) = <<>> THEN w
  ELSE IF isFinal THEN handleTranscript([w EXCEPT !.model = w.segmentId], frame, text, FALSE)
  ELSE handleTranscript(w, frame, text, TRUE)

\* What a call on the service did: the frame it was about, whether it
\* threw, whether queue_overflow was emitted, which frames were discarded
\* with segment_discarded; for a retry, its number, whether the send
\* succeeded and how long the delay before it had lasted.
Stt(name, frame, w, retryNo, ok, waited) ==
  [op |-> name, frame |-> frame, threw |-> w.threw, overflow |-> w.overflow,
   discarded |-> w.discarded, retryNo |-> retryNo, ok |-> ok, waited |-> waited]

NoStt == [op |-> "-", frame |-> Null, threw |-> FALSE, overflow |-> FALSE,
          discarded |-> {}, retryNo |-> 0, ok |-> FALSE, waited |-> 0]

\* Write a backend record back to the variables.
PCommit(w) ==
  /\ Commit(w.d)
  /\ profiles' = w.profiles
  /\ isStreaming' = w.streaming
  /\ liveConnection' = w.live
  /\ conns' = w.conns
  /\ retryQueue' = w.queue
  /\ isRetrying' = w.retrying
  /\ drainLoops' = w.loops
  /\ retrySegment' = w.segment
  /\ retryDelayMs' = w.delay
  /\ retryCount' = w.tries
  /\ retryElapsed' = w.elapsed
  /\ currentAudioSegmentId' = w.segmentId
  /\ lastSent' = IF w.queue = <<>> /\ w.segment = Null THEN Null ELSE w.sent
  /\ audioFailures' = w.failures
  /\ ignored' = w.ignored

\* the variables of the backend that the dispatcher's own methods leave alone
pstate == <<phase, configSensitivity, attentionKeywords, voiceSensitivity, profiles,
            transcriptionService, isStreaming, liveConnection, conns,
            retryQueue, isRetrying, drainLoops, retrySegment, retryDelayMs, retryCount, retryElapsed,
            currentAudioSegmentId, lastSent, audioFailures,
            nextFrame, ignored>>

PInit ==
  /\ phase = "constructed"
  /\ configSensitivity = DefaultConfigSensitivity
  /\ attentionKeywords = DefaultKeywords
  /\ voiceSensitivity = DefaultVoiceSensitivity
  /\ profiles = <<>>
  /\ transcriptionService = FALSE
  /\ isStreaming = FALSE
  /\ liveConnection = Null
  /\ conns = <<>>
  /\ retryQueue = <<>>
  /\ isRetrying = FALSE
  /\ drainLoops = 0
  /\ retrySegment = Null
  /\ retryDelayMs = 0
  /\ retryCount = 0
  /\ retryElapsed = 0
  /\ currentAudioSegmentId = Null
  /\ lastSent = Null
  /\ errorListener = FALSE
  /\ retryAttempts = 0
  /\ lastStt = NoStt
  /\ audioFailures = 0
  /\ nextFrame = 1
  /\ ignored = {}
  /\ lastEvent = NoEvent

\* ==================================================== WebSocketManagerImpl
\* A client id is the position of its ClientConnection in sessions.  The
\* record keeps the object's fields and the readyState of its socket;
\* lastHeartbeat is kept as the time that has passed since it was set.
\* disconnections (the 'disconnection' events published for the id) is
\* history.  The object outlives its registry entry.
\*
\* An inbound buffer is the sequence of its characters; its length stands
\* for chunk.length.
Pcm == <<"00", "ff", "7f">>
Digits == <<"1", "2">>
JsonHeartbeat == <<"{", "type", ":", "heartbeat", "}">>
JsonConfig == <<"{", "type", ":", "config", "}">>
NullText == <<"null">>
Broken == <<"{", "type">>

\* the frames a peer sends: binary or text, with these contents
MessageInputs == {[binary |-> TRUE, data |-> Pcm], [binary |-> TRUE, data |-> Digits],
                  [binary |-> FALSE, data |-> JsonConfig],
                  [binary |-> FALSE, data |-> Broken]}

\* the audio frames a session may have buffered in the first state explored
BufferedAtStart == {0, 100}

\* JSON.parse(data.toString()): an object with a type, a number, null, or
\* a SyntaxError
JSONparse(data) ==
  IF Len(data) = 5 /\ data[1] = "{" /\ data[2] = "type" /\ data[3] = ":" /\ data[5] = "}"
    THEN [ok |-> TRUE, kind |-> "object", type |-> data[4]]
  ELSE IF data # <<>> /\ \A i \in DOMAIN data : data[i] \in {"0", "1", "2", "3", "4",
                                                            "5", "6", "7", "8", "9"}
    THEN [ok |-> TRUE, kind |-> "number", type |-> "undefined"]
  ELSE IF data = NullText
    THEN [ok |-> TRUE, kind |-> "null", type |-> "-"]
  ELSE [ok |-> FALSE, kind |-> "-", type |-> "-"]

\* The hub as one record, for the methods below.  events: what the handler
\* emitted, in order; out: what it sent to sockets, in order; pinged: the
\* sockets it pinged.
HubState ==
  [clients |-> clients, sessions |-> sessions,
   events |-> <<>>, out |-> <<>>, pinged |-> {}]

HubEvent(type, clientId, size) == [type |-> type, clientId |-> clientId, size |-> size]

\* the ClientConnection handleConnection makes
NewClient ==
  [socket |-> "OPEN", lastHeartbeat |-> 0, audioBuffer |-> <<>>, isAlive |-> TRUE,
   disconnections |-> 0]

\* sendToClient(clientId, message)
sendToClient_IgnoresReadyState(h, clientId, type) ==
  IF clientId \notin h.clients
    THEN h
    ELSE [h EXCEPT !.out = Append(@, [to |-> clientId, type |-> type])]

sendToClient(h, clientId, type) ==
  IF clientId \notin h.clients \/ h.sessions[clientId].socket # "OPEN"
    THEN h
    ELSE [h EXCEPT !.out = Append(@, [to |-> clientId, type |-> type])]

\* handleConnection(socket)
handleConnection(h) ==
  LET clientId == Len(h.sessions) + 1
      h1 == [h EXCEPT !.sessions = Append(@, NewClient), !.clients = @ \cup {clientId}]
      h2 == [h1 EXCEPT !.out = Append(@, [to |-> clientId, type |-> "ack"])]
  IN [h2 EXCEPT !.events = Append(@, HubEvent("connection", clientId, 0))]

\* processAudioChunk(chunk, clientId)
hubProcessAudioChunk(h, chunk, clientId) ==
  IF clientId \notin h.clients THEN h
  ELSE [h EXCEPT !.sessions[clientId].audioBuffer = Append(@, chunk),
                 !.events = Append(@, HubEvent("audio_chunk", clientId, Len(chunk)))]

\* handleMessage(clientId, data)
handleMessage(h, clientId, data) ==
  IF clientId \notin h.clients THEN h
  ELSE LET message == JSONparse(data)
       IN IF ~message.ok \/ message.kind = "null"
            THEN hubProcessAudioChunk(h, data, clientId)
          ELSE IF message.type = "heartbeat"
            THEN sendToClient([h EXCEPT !.sessions[clientId].lastHeartbeat = 0,
                                        !.sessions[clientId].isAlive = TRUE],
                              clientId, "heartbeat")
          ELSE IF message.type = "config"
            THEN [h EXCEPT !.events = Append(@, HubEvent("config_update", clientId, 0))]
          ELSE h

\* the for loop of a broadcast over the registry from client id i on
RECURSIVE broadcastFrom(_, _, _)
broadcastFrom(h, i, type) ==
  IF i > Len(h.sessions) THEN h
  ELSE broadcastFrom(IF i \in h.clients THEN sendToClient(h, i, type) ELSE h, i + 1, type)

\* broadcastTranscript(transcript)
broadcastTranscript(h) == broadcastFrom(h, 1, "transcript")

\* broadcastVolumeAction(action): called by the backend's 'volume_action'
\* handler; the fan-out to every session in the registry
broadcastVolumeAction(h) == broadcastFrom(h, 1, "volume_action")

\* cleanupConnection(clientId)
cleanupConnection(h, clientId) ==
  IF clientId \notin h.clients THEN h
  ELSE [h EXCEPT !.sessions[clientId].audioBuffer = <<>>,
                 !.sessions[clientId].socket = IF @ = "OPEN" THEN "CLOSING" ELSE @,
                 !.clients = @ \ {clientId},
                 !.events = Append(@, HubEvent("cleanup", clientId, 0))]

\* faulty variant: the event is published but the session is not cleaned up
handleDisconnection_NoCleanup(h, clientId) ==
  [h EXCEPT !.events = Append(@, HubEvent("disconnection", clientId, 0)),
            !.sessions[clientId].disconnections = @ + 1]

\* handleDisconnection(clientId)
handleDisconnection(h, clientId) ==
  LET h1 == cleanupConnection(h, clientId)
  IN [h1 EXCEPT !.events = Append(@, HubEvent("disconnection", clientId, 0)),
                !.sessions[clientId].disconnections = @ + 1]

\* faulty variant: only the heartbeat timeout terminates, not the liveness flag
heartbeatClient_NoStaleCheck(h, clientId) ==
  LET client == h.sessions[clientId]
  IN IF client.lastHeartbeat > HEARTBEAT_TIMEOUT_MS
       THEN cleanupConnection(
              [h EXCEPT !.events = Append(@, HubEvent("heartbeat_timeout", clientId, 0))],
              clientId)
     ELSE [h EXCEPT !.sessions[clientId].isAlive = FALSE,
                    !.pinged = @ \cup {clientId}]

\* faulty variant: the ping leaves the liveness flag set
heartbeatClient_KeepsAlive(h, clientId) ==
  LET client == h.sessions[clientId]
  IN IF ~client.isAlive
       THEN cleanupConnection(
              [h EXCEPT !.events = Append(@, HubEvent("stale_connection", clientId, 0))],
              clientId)
     ELSE IF client.lastHeartbeat > HEARTBEAT_TIMEOUT_MS
       THEN cleanupConnection(
              [h EXCEPT !.events = Append(@, HubEvent("heartbeat_timeout", clientId, 0))],
              clientId)
     ELSE [h EXCEPT !.pinged = @ \cup {clientId}]

\* the body of the heartbeat loop for one client
heartbeatClient(h, clientId) ==
  LET client == h.sessions[clientId]
  IN IF ~client.isAlive
       THEN cleanupConnection(
              [h EXCEPT !.events = Append(@, HubEvent("stale_connection", clientId, 0))],
              clientId)
     ELSE IF client.lastHeartbeat > HEARTBEAT_TIMEOUT_MS
       THEN cleanupConnection(
              [h EXCEPT !.events = Append(@, HubEvent("heartbeat_timeout", clientId, 0))],
              clientId)
     ELSE [h EXCEPT !.sessions[clientId].isAlive = FALSE,
                    !.pinged = @ \cup {clientId}]

\* the setInterval callback of startHeartbeatMonitor: the loop over the
\* registry from client id i on
RECURSIVE heartbeatFrom(_, _)
heartbeatFrom(h, i) ==
  IF i > Len(h.sessions) THEN h
  ELSE heartbeatFrom(IF i \in h.clients THEN heartbeatClient(h, i) ELSE h, i + 1)

\* the loop of stop() over the registry from client id i on
RECURSIVE stopFrom(_, _)
stopFrom(h, i) ==
  IF i > Len(h.sessions) THEN h
  ELSE stopFrom(cleanupConnection(h, i), i + 1)

\* lastHub of a step made by a hub handler that emits events, sends
\* messages or pings
Hub(name, clientId, binary, data, h) ==
  [op |-> name, client |-> clientId, binary |-> binary, data |-> data,
   events |-> h.events, out |-> h.out, pinged |-> h.pinged]

NoHub == [op |-> "-", client |-> 0, binary |-> FALSE, data |-> <<>>,
          events |-> <<>>, out |-> <<>>, pinged |-> {}]

\* Write a hub record back to the variables.  A ClientConnection that has
\* left the registry is unreachable but for its socket: its liveness flag
\* and its lastHeartbeat are no longer kept.
HCommit(h) ==
  /\ clients' = h.clients
  /\ sessions' = [c \in DOMAIN h.sessions |->
                    IF c \in h.clients THEN h.sessions[c]
                    ELSE [h.sessions[c] EXCEPT !.isAlive = FALSE, !.lastHeartbeat = 0]]

HInit ==
  /\ wss = FALSE
  /\ heartbeatIn = 0
  /\ clients = {}
  /\ sessions = <<>>
  /\ nextMessage = 1
  /\ lastHub = NoHub

\* ============================================ engine, handler and breaker
\* ------------------------------------------- AttentionDetectionEngineImpl
\* What analyzeWithDetails was called with and what it returned and emitted.
Detect(text, sensitivity_, llm, result) ==
  [op |-> "analyzeWithDetails", text |-> text, sensitivity |-> sensitivity_,
   llm |-> llm, result |-> result]

NoDetect ==
  [op |-> "-", text |-> <<>>, sensitivity |-> 0, llm |-> NoLLM,
   result |-> Detection("-", 0, {}, {}, FALSE, <<>>, 0, FALSE)]

EInit ==
  /\ userName = <<>>
  /\ llmProvider = FALSE
  /\ llmEnabled = FALSE
  /\ uncertaintyThreshold = 50
  /\ lastDetect = NoDetect

\* ------------------------------------------------------------ ErrorHandler
Tracker(count, warned) == [failureCount |-> count, warningEmitted |-> warned]

\* Map.prototype.set
set(map, key, value) ==
  [k \in DOMAIN map \cup {key} |-> IF k = key THEN value ELSE map[k]]

\* The calls on the handler return its trackers, the events the call
\* emitted and the count it reported.
\* faulty variant: warningEmitted is not looked at
recordFailure_WarnsAgain(trackers, operationName) ==
  LET tracker == IF operationName \in DOMAIN trackers THEN trackers[operationName]
                 ELSE Tracker(0, FALSE)
      count == tracker.failureCount + 1
      warn == count >= FAILURE_WARNING_THRESHOLD
  IN [trackers |-> set(trackers, operationName, Tracker(count, warn)),
      events |-> <<"error_recorded">> \o (IF warn THEN <<"warning">> ELSE <<>>),
      count |-> count]

recordFailure(trackers, operationName) ==
  LET tracker == IF operationName \in DOMAIN trackers THEN trackers[operationName]
                 ELSE Tracker(0, FALSE)
      count == tracker.failureCount + 1
      warn == count >= FAILURE_WARNING_THRESHOLD /\ ~tracker.warningEmitted
  IN [trackers |-> set(trackers, operationName,
                       Tracker(count, tracker.warningEmitted \/ warn)),
      events |-> <<"error_recorded">> \o (IF warn THEN <<"warning">> ELSE <<>>),
      count |-> count]

recordSuccess(trackers, operationName) ==
  [trackers |-> IF operationName \in DOMAIN trackers
                  THEN set(trackers, operationName, Tracker(0, FALSE))
                  ELSE trackers,
   events |-> <<>>, count |-> 0]

resetFailures(trackers, operationName) ==
  [trackers |-> [n \in DOMAIN trackers \ {operationName} |-> trackers[n]],
   events |-> <<>>, count |-> 0]

getFailureCount(trackers, operationName) ==
  IF operationName \in DOMAIN trackers THEN trackers[operationName].failureCount ELSE 0

Record(op, operationName, r) ==
  [op |-> op, operationName |-> operationName, events |-> r.events, count |-> r.count]

NoRecord == [op |-> "-", operationName |-> "-", events |-> <<>>, count |-> 0]

FInit ==
  /\ failureTrackers = <<>>
  /\ lastRecord = NoRecord

\* ---------------------------------------------------------- CircuitBreaker
\* The breaker as a record.  Its clock counts in units of 10000 ms; since
\* is the time that has passed since lastFailureTime, counted up to
\* resetTimeoutMs, where the breaker stops telling more from less.
Breaker ==
  [config |-> config, state |-> state, failureCount |-> failureCount,
   successCount |-> successCount, since |-> lastFailureTime,
   invoked |-> FALSE, rejected |-> FALSE, events |-> <<>>]

\* constructor(config): an option that is missing or 0 takes its default
CircuitBreaker(failureThreshold, resetTimeoutMs, halfOpenRequests) ==
  [failureThreshold |-> IF failureThreshold # 0 THEN failureThreshold
                        ELSE DefaultFailureThreshold,
   resetTimeoutMs |-> IF resetTimeoutMs # 0 THEN resetTimeoutMs ELSE DefaultResetTimeoutMs,
   halfOpenRequests |-> IF halfOpenRequests # 0 THEN halfOpenRequests
                        ELSE DefaultHalfOpenRequests]

transitionTo(b, newState) ==
  LET b1 == [b EXCEPT !.state = newState,
                      !.events = Append(@, <<b.state, newState>>)]
  IN IF newState = "CLOSED" THEN [b1 EXCEPT !.failureCount = 0, !.successCount = 0]
     ELSE IF newState = "HALF_OPEN" THEN [b1 EXCEPT !.successCount = 0]
     ELSE b1

onSuccess(b) ==
  IF b.state = "HALF_OPEN"
    THEN LET b1 == [b EXCEPT !.successCount = @ + 1]
         IN IF b1.successCount >= b1.config.halfOpenRequests
              THEN transitionTo(b1, "CLOSED") ELSE b1
    ELSE [b EXCEPT !.failureCount = 0]

\* faulty variant: a failed probe does not open the breaker
onFailure_StaysHalfOpen(b) ==
  LET b1 == [b EXCEPT !.failureCount = @ + 1, !.since = 0]
  IN IF b1.state # "HALF_OPEN" /\ b1.failureCount >= b1.config.failureThreshold
       THEN transitionTo(b1, "OPEN")
     ELSE b1

onFailure(b) ==
  LET b1 == [b EXCEPT !.failureCount = @ + 1, !.since = 0]
  IN IF b1.state = "HALF_OPEN" THEN transitionTo(b1, "OPEN")
     ELSE IF b1.failureCount >= b1.config.failureThreshold THEN transitionTo(b1, "OPEN")
     ELSE b1

\* faulty variant: a rejected call restarts the open period
execute_RejectionCounts(b) ==
  IF b.state = "OPEN"
    THEN IF b.since >= b.config.resetTimeoutMs
           THEN [transitionTo(b, "HALF_OPEN") EXCEPT !.invoked = TRUE]
           ELSE [b EXCEPT !.rejected = TRUE, !.since = 0]
    ELSE [b EXCEPT !.invoked = TRUE]

\* execute(operation) up to the await: the breaker lets the call through
\* and invokes the operation, or throws 'Circuit breaker is OPEN'
execute(b) ==
  IF b.state = "OPEN"
    THEN IF b.since >= b.config.resetTimeoutMs
           THEN [transitionTo(b, "HALF_OPEN") EXCEPT !.invoked = TRUE]
           ELSE [b EXCEPT !.rejected = TRUE]
    ELSE [b EXCEPT !.invoked = TRUE]

\* execute(operation) after the await: the operation resolved or rejected
settle(b, resolved) == IF resolved THEN onSuccess(b) ELSE onFailure(b)

reset(b) == transitionTo(b, "CLOSED")

Execute(op, b) ==
  [op |-> op, from |-> state, invoked |-> b.invoked, rejected |-> b.rejected,
   events |-> b.events]

NoExecute == [op |-> "-", from |-> "-", invoked |-> FALSE, rejected |-> FALSE,
              events |-> <<>>]

BCommit(b) ==
  /\ state' = b.state
  /\ failureCount' = b.failureCount
  /\ successCount' = b.successCount
  /\ lastFailureTime' = b.since
  /\ UNCHANGED config

\* a new breaker; lastFailureTime is 0, the epoch, long ago
NewBreaker(c) ==
  /\ config = c
  /\ state = "CLOSED"
  /\ failureCount = 0
  /\ successCount = 0
  /\ lastFailureTime = c.resetTimeoutMs
  /\ pending = 0
  /\ pendingProbes = 0
  /\ lastExecute = NoExecute

CInit == NewBreaker(CircuitBreaker(0, 0, 0))

\* ============================================== ConfigurationManagerImpl
\* new ConfigurationModel()
ConfigurationModel ==
  [sensitivityLevel |-> DefaultConfigSensitivity,
   attentionKeywords |-> {Chars("hey"), Chars("hello"), Chars("excuse me")},
   userName |-> Chars(""),
   silenceTimeoutMs |-> DefaultConfigTimeoutMs,
   deepgramApiKey |-> FALSE,
   llmEnabled |-> FALSE]

\* ConfigurationModel.fromJSON(data): a field that data lacks keeps the default
fromJSON(data) ==
  [f \in ConfigFields |-> IF f \in data.has THEN data[f] ELSE ConfigurationModel[f]]

\* ConfigurationModel.toJSON()
toJSON(c) ==
  [f \in ConfigFields \cup {"has"} |-> IF f = "has" THEN ConfigFields ELSE c[f]]

\* ConfigurationModel.validate(): the messages it returns
validate(c) ==
  {e \in {"sensitivity", "timeout", "apiKey"} :
     \/ e = "sensitivity" /\ (c.sensitivityLevel < 0 \/ c.sensitivityLevel > 100)
     \/ e = "timeout" /\ c.silenceTimeoutMs < MinSilenceTimeoutMs
     \/ e = "apiKey" /\ ~c.deepgramApiKey}

\* The manager's config and the file, as one record; threw is TRUE when the
\* call ended with an Error, warned when it logged validation warnings.
Manager ==
  [config |-> [storedConfig EXCEPT !.sensitivityLevel = configSensitivity],
   file |-> configFile, threw |-> FALSE, warned |-> FALSE]

NoFile == [exists |-> FALSE, data |-> toJSON(ConfigurationModel)]

\* saveConfiguration(config): the configuration is replaced before it is
\* validated, and what validate() reports is logged only
saveConfiguration(mgr, data) ==
  LET c == fromJSON(data)
  IN [mgr EXCEPT !.config = c,
                 !.warned = validate(c) # {},
                 !.file = [exists |-> TRUE, data |-> toJSON(c)]]

\* updateSensitivity(level)
updateSensitivity(mgr, level) ==
  IF level < 0 \/ level > 100 THEN [mgr EXCEPT !.threw = TRUE]
  ELSE saveConfiguration(mgr, toJSON([mgr.config EXCEPT !.sensitivityLevel = level]))

\* setTimeout(timeoutMs)
setTimeout(mgr, timeoutMs) ==
  IF timeoutMs < MinSilenceTimeoutMs THEN [mgr EXCEPT !.threw = TRUE]
  ELSE saveConfiguration(mgr, toJSON([mgr.config EXCEPT !.silenceTimeoutMs = timeoutMs]))

\* addKeyword(keyword) of the manager
addKeyword(mgr, keyword) ==
  IF keyword = <<>> \/ trim(keyword) = <<>> THEN [mgr EXCEPT !.threw = TRUE]
  ELSE LET normalizedKeyword == trim(toLowerCase(keyword))
       IN IF normalizedKeyword \in mgr.config.attentionKeywords THEN mgr
          ELSE saveConfiguration(mgr,
                 toJSON([mgr.config EXCEPT !.attentionKeywords = @ \cup {normalizedKeyword}]))

\* applyEnvOverrides()
applyEnvOverrides(c, env) ==
  [c EXCEPT !.sensitivityLevel = IF env.SENSITIVITY_LEVEL = "low" THEN 30
                                 ELSE IF env.SENSITIVITY_LEVEL = "medium" THEN 50
                                 ELSE IF env.SENSITIVITY_LEVEL = "high" THEN 80
                                 ELSE @,
            !.silenceTimeoutMs = IF env.SILENCE_TIMEOUT_MS >= MinSilenceTimeoutMs
                                   THEN env.SILENCE_TIMEOUT_MS ELSE @]

\* loadConfiguration(): without a file the configuration held is kept
loadConfiguration(mgr, env) ==
  [mgr EXCEPT !.config = applyEnvOverrides(IF mgr.file.exists THEN fromJSON(mgr.file.data)
                                           ELSE mgr.config, env)]

\* the field writes of a call on the manager
MCommit(mgr) ==
  /\ configSensitivity' = mgr.config.sensitivityLevel
  /\ storedConfig' = mgr.config
  /\ configFile' = mgr.file

\* AttentionDetectionEngineImpl.addKeyword(keyword), for each of the keywords
engineAddKeywords(engineKeywords, keywords) ==
  engineKeywords \cup {trim(toLowerCase(k)) : k \in {q \in keywords : q # <<>> /\ trim(q) # <<>>}}

\* The components applyConfiguration writes, as one record.
Components ==
  [voice |-> voiceSensitivity, dispatcher |-> dispatcherSensitivity,
   keywords |-> attentionKeywords, userName |-> userName,
   timeoutMs |-> silenceTimeoutMs, service |-> transcriptionService, threw |-> FALSE]

\* applyConfiguration(), up to the first setter that throws.  No LLM service
\* is reachable, so initializeLLM reports false and disableLLM leaves
\* llmEnabled false.
applyConfiguration(a, c) ==
  IF c.sensitivityLevel < 0 \/ c.sensitivityLevel > 100 THEN [a EXCEPT !.threw = TRUE]
  ELSE LET b == [a EXCEPT !.voice = c.sensitivityLevel,
                          !.dispatcher = c.sensitivityLevel,
                          !.keywords = engineAddKeywords(@, c.attentionKeywords),
                          !.userName = IF c.userName # <<>> THEN trim(c.userName) ELSE @]
       IN IF c.silenceTimeoutMs < MinSilenceTimeoutMs THEN [b EXCEPT !.threw = TRUE]
          ELSE [b EXCEPT !.timeoutMs = c.silenceTimeoutMs,
                         !.service = c.deepgramApiKey \/ @]

\* the field writes of applyConfiguration and of the setters a route calls
ACommit(a) ==
  /\ voiceSensitivity' = a.voice
  /\ dispatcherSensitivity' = a.dispatcher
  /\ attentionKeywords' = a.keywords
  /\ userName' = a.userName
  /\ silenceTimeoutMs' = a.timeoutMs
  /\ transcriptionService' = a.service

\* a call on the manager or a request: invalid is TRUE when the value it
\* carries violates a bound, threw when it ended with an error
Config(op, invalid, threw) == [op |-> op, invalid |-> invalid, threw |-> threw]

NoConfig == Config("none", FALSE, FALSE)

CfgInit ==
  /\ storedConfig = ConfigurationModel
  /\ configFile = NoFile
  /\ dispatcherSensitivity = DefaultDispatcherSensitivity
  /\ lastConfig = NoConfig

\* a call on the voice profile service: the profiles before it and what it
\* returned; threw is TRUE when it ended with an Error
Profile(op, profileId, chunk, before, existed, result, threw) ==
  [op |-> op, profileId |-> profileId, chunk |-> chunk, before |-> before,
   existed |-> existed, result |-> result, threw |-> threw]

NoProfile == Profile("none", Null, <<0, 0>>, <<>>, FALSE, NoMatch, FALSE)

RInit == lastProfile = NoProfile

YInit == RInit /\ CfgInit

XInit == EInit /\ FInit /\ CInit /\ YInit

\* ---------------------------------------------------------------- actions
DInit ==
  /\ currentVolumeState = "normal"
  /\ silenceTimer = Null
  /\ silenceTimeoutMs = DefaultSilenceTimeoutMs
  /\ timers = {}
  /\ lastTimerId = Null
  /\ emitted = <<>>
  /\ quietDue = 0
  /\ lastOp = [op |-> "init", decision |-> "-", arg |-> 0,
               from |-> "normal", hadTimer |-> FALSE]

\* An attention verdict is one that lowers the volume or keeps it lowered.
IsAttention(decision, sensitivity) ==
  \/ decision = "DEFINITELY_TO_ME"
  \/ decision = "PROBABLY_TO_ME" /\ sensitivity > ProbableThreshold

DispatchAction ==
  \E decision \in Decisions, s \in SensitivityInputs :
    /\ Commit(dispatchAction(DispState, decision, s))
    /\ quietDue' = IF IsAttention(decision, s) THEN silenceTimeoutMs ELSE quietDue
    /\ lastOp' = Op("dispatchAction", decision, s)
    /\ UNCHANGED <<hvars, svars, xvars>>
    /\ UNCHANGED <<silenceTimeoutMs, pstate>>
    /\ lastEvent' = NoEvent

\* A pending timeout that is due runs its callback.
SilenceTimeout ==
  \E t \in timers :
    /\ t.remaining = 0
    /\ Commit(onSilenceTimeout([DispState EXCEPT !.timers = @ \ {t}]))
    /\ lastOp' = Op("onSilenceTimeout", "-", t.id)
    /\ UNCHANGED <<hvars, svars, xvars>>
    /\ UNCHANGED <<silenceTimeoutMs, quietDue, pstate>>
    /\ lastEvent' = NoEvent

ForceRestoreVolume ==
  /\ Commit(forceRestoreVolume(DispState))
  /\ quietDue' = 0
  /\ lastOp' = Op("forceRestoreVolume", "-", 0)
  /\ UNCHANGED <<hvars, svars, xvars>>
  /\ UNCHANGED <<silenceTimeoutMs, pstate>>
  /\ lastEvent' = NoEvent

ForceLowerVolume ==
  /\ Commit(forceLowerVolume(DispState))
  /\ quietDue' = 0
  /\ lastOp' = Op("forceLowerVolume", "-", 0)
  /\ UNCHANGED <<hvars, svars, xvars>>
  /\ UNCHANGED <<silenceTimeoutMs, pstate>>
  /\ lastEvent' = NoEvent

\* direct calls of the public timer methods
StartSilenceTimer ==
  /\ Commit(startSilenceTimer(DispState))
  /\ quietDue' = 0
  /\ lastOp' = Op("startSilenceTimer", "-", 0)
  /\ UNCHANGED <<hvars, svars, xvars>>
  /\ UNCHANGED <<silenceTimeoutMs, pstate>>
  /\ lastEvent' = NoEvent

StopSilenceTimer ==
  /\ Commit(stopSilenceTimer(DispState))
  /\ quietDue' = 0
  /\ lastOp' = Op("stopSilenceTimer", "-", 0)
  /\ UNCHANGED <<hvars, svars, xvars>>
  /\ UNCHANGED <<silenceTimeoutMs, pstate>>
  /\ lastEvent' = NoEvent

\* setSilenceTimeout(timeoutMs): throws below 1000 ms, else stores
SetSilenceTimeout ==
  \E t \in TimeoutInputs :
    /\ silenceTimeoutMs' = IF t < MinSilenceTimeoutMs THEN silenceTimeoutMs ELSE t
    /\ lastOp' = Op("setSilenceTimeout", "-", t)
    /\ UNCHANGED <<hvars, svars, xvars>>
    /\ UNCHANGED <<currentVolumeState, silenceTimer,
                   timers, lastTimerId, emitted, quietDue, pstate>>
    /\ lastEvent' = NoEvent

\* One unit of time passes.
Tick ==
  /\ timers' = {[t EXCEPT !.remaining = Max(0, @ - 1)] : t \in timers}
  /\ quietDue' = Max(0, quietDue - 1)
  /\ lastOp' = NoOp
  /\ UNCHANGED <<hvars, svars, xvars>>
  /\ lastEvent' = NoEvent
  /\ UNCHANGED <<currentVolumeState, silenceTimer, silenceTimeoutMs,
                 lastTimerId, emitted>>
  /\ UNCHANGED <<phase, configSensitivity, attentionKeywords, voiceSensitivity,
                 profiles, transcriptionService, isStreaming, liveConnection, conns,
                 retryQueue, isRetrying, drainLoops, retrySegment, retryDelayMs, retryCount, retryElapsed,
                 currentAudioSegmentId, lastSent,
                 audioFailures, nextFrame, ignored>>

DNext ==
  \/ DispatchAction
  \/ SilenceTimeout
  \/ ForceRestoreVolume
  \/ ForceLowerVolume
  \/ StartSilenceTimer
  \/ StopSilenceTimer
  \/ SetSilenceTimeout
  \/ Tick

Init == DInit /\ PInit /\ HInit /\ XInit

Spec == Init /\ [][DNext]_vars

\* ------------------------------------------------------- pipeline actions
\* start(): loadConfiguration, then applyConfiguration.  The configuration
\* is whatever config.json and the environment hold; setSilenceTimeout
\* throws on a timeout below 1000 ms and start() is rejected.  The LLM
\* fallback is off in the configurations explored.
Start ==
  /\ phase = "constructed"
  /\ \E sens \in ConfigSensitivityInputs, keywords \in ConfigKeywordInputs,
        timeoutMs \in ConfigTimeoutInputs, hasApiKey \in BOOLEAN :
       /\ configSensitivity' = sens
       /\ storedConfig' = [ConfigurationModel EXCEPT !.sensitivityLevel = sens,
                                                     !.attentionKeywords = keywords,
                                                     !.silenceTimeoutMs = timeoutMs,
                                                     !.deepgramApiKey = hasApiKey]
       /\ configFile' = [exists |-> TRUE, data |-> toJSON(storedConfig')]
       /\ voiceSensitivity' = sens
       /\ dispatcherSensitivity' = sens
       /\ attentionKeywords' = attentionKeywords \cup keywords
       /\ IF timeoutMs < MinSilenceTimeoutMs
            THEN /\ phase' = "failed"
                 /\ UNCHANGED <<silenceTimeoutMs, transcriptionService>>
            ELSE /\ phase' = "started"
                 /\ silenceTimeoutMs' = timeoutMs
                 /\ transcriptionService' = hasApiKey
  /\ lastOp' = NoOp
  /\ lastConfig' = NoConfig
  /\ UNCHANGED <<hvars, svars, evars, fvars, bvars, rvars>>
  /\ lastEvent' = NoEvent
  /\ UNCHANGED <<currentVolumeState, silenceTimer, timers, lastTimerId, emitted,
                 quietDue, profiles, isStreaming, liveConnection, conns,
                 retryQueue, isRetrying, drainLoops, retrySegment, retryDelayMs, retryCount, retryElapsed,
                 currentAudioSegmentId, lastSent, audioFailures,
                 nextFrame, ignored>>

\* getVoiceProfileService().addProfile(audioSamples, profileId)
AddProfile ==
  /\ \E profileId \in ProfileIds, v \in TrainingVoices, n \in {0, 1} :
       profiles' = addProfile(profiles, IF n = 0 THEN <<>> ELSE <<v>>, profileId)
  /\ lastOp' = NoOp
  /\ UNCHANGED <<hvars, svars, xvars>>
  /\ lastEvent' = NoEvent
  /\ UNCHANGED <<dstate, quietDue, phase, configSensitivity, attentionKeywords,
                 voiceSensitivity, transcriptionService, isStreaming, liveConnection,
                 conns, retryQueue, isRetrying, drainLoops, retrySegment, retryDelayMs, retryCount, retryElapsed,
                 currentAudioSegmentId, lastSent,
                 audioFailures, nextFrame, ignored>>

\* wsManager 'audio_chunk' -> processAudioChunk
AudioChunk ==
  /\ phase = "started"
  /\ nextFrame <= MaxFrames
  /\ \E chunkFeatures \in Voices, liveThrows \in BOOLEAN, sendThrows \in BOOLEAN :
       LET w == processAudioChunk(World, nextFrame, chunkFeatures, liveThrows, sendThrows)
       IN /\ PCommit(w)
          /\ lastEvent' = NoEvent
  /\ nextFrame' = nextFrame + 1
  /\ lastOp' = NoOp
  /\ UNCHANGED <<hvars, svars, xvars>>
  /\ UNCHANGED <<silenceTimeoutMs, quietDue, phase, configSensitivity,
                 attentionKeywords, voiceSensitivity, transcriptionService>>

\* Deepgram sends a transcript of audio it received on an open connection.
SttTranscript ==
  \E c \in DOMAIN conns :
    /\ conns[c].open
    /\ \E frame \in conns[c].received, text \in Texts, isFinal \in BOOLEAN :
         \E w \in {onTranscript([World EXCEPT !.stream = conns[c].segmentId],
                               frame, text, isFinal)} :
            /\ PCommit(w)
            /\ quietDue' = IF IsAttention(w.verdict, configSensitivity)
                             THEN silenceTimeoutMs ELSE quietDue
            /\ lastOp' = NoOp
            /\ UNCHANGED <<hvars, svars, xvars>>
            /\ lastEvent' = Event(IF trim(text) = <<>> THEN "dropped" ELSE "handleTranscript",
                                   ~isFinal, w)
    /\ UNCHANGED <<silenceTimeoutMs, phase, configSensitivity, attentionKeywords,
                   voiceSensitivity, transcriptionService, nextFrame>>

\* LiveTranscriptionEvents.Close on a connection, the live one or an older
\* one.  A closed connection delivers nothing more; what it had received is
\* no longer kept.
SttClose ==
  \E c \in DOMAIN conns :
    /\ conns[c].open
    /\ conns' = [conns EXCEPT ![c].open = FALSE, ![c].received = {}]
    /\ isStreaming' = FALSE
    /\ lastOp' = NoOp
    /\ UNCHANGED <<hvars, xvars, errorListener, retryAttempts>>
    /\ lastStt' = NoStt
    /\ lastEvent' = NoEvent
    /\ UNCHANGED <<dstate, quietDue, phase, configSensitivity, attentionKeywords,
                   voiceSensitivity, profiles, transcriptionService, liveConnection,
                   retryQueue, isRetrying, drainLoops, retrySegment, retryDelayMs, retryCount, retryElapsed,
                   currentAudioSegmentId, lastSent,
                   audioFailures, nextFrame, ignored>>

\* the delay of processRetryQueue is over: setTimeout resolves it once
\* retryDelayMs have passed, and the loop goes on
RetryAfterDelay ==
  /\ isRetrying /\ retrySegment # Null
  /\ retryElapsed >= retryDelayMs
  /\ retryAttempts < MaxRetries
  /\ \E sendThrows \in BOOLEAN :
       LET w == afterRetryDelay(World, sendThrows)
       IN /\ PCommit(w)
          /\ lastStt' = Stt("retry", retrySegment, w, retryCount + 1,
                            isConnected(World) /\ ~sendThrows, retryElapsed)
  /\ retryAttempts' = retryAttempts + 1
  /\ lastOp' = NoOp
  /\ UNCHANGED <<hvars, xvars>>
  /\ lastEvent' = NoEvent
  /\ UNCHANGED <<silenceTimeoutMs, quietDue, phase, configSensitivity,
                 attentionKeywords, voiceSensitivity, transcriptionService, nextFrame,
                 errorListener>>

\* ---------------------------------------- calls on TranscriptionServiceImpl
\* service.on('error', listener)
SttOnError ==
  /\ ~errorListener
  /\ errorListener' = TRUE
  /\ lastStt' = NoStt
  /\ UNCHANGED <<dvars, hvars, xvars, pstate, lastEvent, retryAttempts>>

\* service.startStream(onPartialTranscript)
SttStartStream ==
  /\ currentAudioSegmentId < MaxStreams
  /\ \E liveThrows \in BOOLEAN :
       LET w == startStream(World, liveThrows)
       IN /\ PCommit(w)
          /\ lastStt' = Stt("startStream", Null, w, 0, FALSE, 0)
  /\ lastOp' = NoOp
  /\ UNCHANGED <<hvars, xvars>>
  /\ lastEvent' = NoEvent
  /\ UNCHANGED <<silenceTimeoutMs, quietDue, phase, configSensitivity,
                 attentionKeywords, voiceSensitivity, transcriptionService, nextFrame,
                 errorListener, retryAttempts>>

\* service.sendAudio(chunk)
SttSendAudio ==
  /\ nextFrame <= MaxFrames
  /\ \E sendThrows \in BOOLEAN :
       LET w == sendAudio(World, nextFrame, sendThrows)
       IN /\ PCommit(w)
          /\ lastStt' = Stt("sendAudio", nextFrame, w, 0,
                            isConnected(World) /\ ~sendThrows, 0)
  /\ nextFrame' = nextFrame + 1
  /\ lastOp' = NoOp
  /\ UNCHANGED <<hvars, xvars>>
  /\ lastEvent' = NoEvent
  /\ UNCHANGED <<silenceTimeoutMs, quietDue, phase, configSensitivity,
                 attentionKeywords, voiceSensitivity, transcriptionService,
                 errorListener, retryAttempts>>

\* service.closeStream()
SttCloseStream ==
  /\ isStreaming \/ liveConnection # Null
  /\ LET w == closeStream(World)
     IN /\ PCommit(w)
        /\ lastStt' = Stt("closeStream", Null, w, 0, FALSE, 0)
  /\ lastOp' = NoOp
  /\ UNCHANGED <<hvars, xvars>>
  /\ lastEvent' = NoEvent
  /\ UNCHANGED <<silenceTimeoutMs, quietDue, phase, configSensitivity,
                 attentionKeywords, voiceSensitivity, transcriptionService, nextFrame,
                 errorListener, retryAttempts>>

\* One unit of time (1000 ms) of the delay of processRetryQueue passes.
\* retryElapsed stops counting once the delay is over.
SttTick ==
  /\ isRetrying /\ retrySegment # Null
  /\ retryElapsed < retryDelayMs
  /\ retryElapsed' = retryElapsed + 1
  /\ lastStt' = NoStt
  /\ UNCHANGED <<dvars, hvars, xvars, phase, configSensitivity, attentionKeywords,
                 voiceSensitivity, profiles, transcriptionService, isStreaming,
                 liveConnection, conns, retryQueue, isRetrying, drainLoops, retrySegment,
                 retryDelayMs, retryCount, audioFailures, nextFrame, ignored,
                 lastEvent, errorListener, retryAttempts,
                 currentAudioSegmentId, lastSent>>

\* The service as its callers may use it, from its construction or from
\* the state it is in after QueuedAtStart calls of sendAudio made before
\* any startStream, within the first second, and RetriedAtStart retries of
\* the first of these segments, which failed for want of a connection.
SttInit ==
  /\ DInit /\ HInit /\ XInit
  /\ phase = "constructed"
  /\ configSensitivity = DefaultConfigSensitivity
  /\ attentionKeywords = DefaultKeywords
  /\ voiceSensitivity = DefaultVoiceSensitivity
  /\ profiles = <<>>
  /\ transcriptionService = FALSE
  /\ isStreaming = FALSE
  /\ liveConnection = Null
  /\ conns = <<>>
  /\ \E k \in QueuedAtStart, r \in RetriedAtStart :
       /\ retryQueue = [i \in 1..k |-> [frame |-> i - k - 1,
                                         retryCount |-> IF i = 1 THEN r ELSE 0]]
       /\ isRetrying = (k > 0)
       /\ drainLoops = IF k > 0 THEN 1 ELSE 0
       /\ retrySegment = IF k > 0 THEN 0 - k ELSE Null
       /\ retryDelayMs = IF k > 0 THEN BASE_RETRY_DELAY_MS * Pow2(r) ELSE 0
       /\ retryCount = IF k > 0 THEN r ELSE 0
  /\ retryElapsed = 0
  /\ currentAudioSegmentId = Null
  /\ lastSent = Null
  /\ audioFailures = 0
  /\ nextFrame = 1
  /\ ignored = {}
  /\ lastEvent = NoEvent
  /\ errorListener = FALSE
  /\ retryAttempts = 0
  /\ lastStt = NoStt

SttNext ==
  \/ SttOnError
  \/ SttStartStream
  \/ SttSendAudio
  \/ SttCloseStream
  \/ SttClose
  \/ RetryAfterDelay
  \/ SttTick

SttSpec == SttInit /\ [][SttNext]_vars

\* The step of RetryAfterDelay with the attempts left uncounted, so that
\* the loop can run to its end.
RetryToTheEnd ==
  /\ isRetrying /\ retrySegment # Null
  /\ retryElapsed >= retryDelayMs
  /\ \E sendThrows \in BOOLEAN :
       LET w == afterRetryDelay(World, sendThrows)
       IN /\ PCommit(w)
          /\ lastStt' = Stt("retry", retrySegment, w, retryCount + 1,
                            isConnected(World) /\ ~sendThrows, retryElapsed)
  /\ lastOp' = NoOp
  /\ UNCHANGED <<hvars, xvars>>
  /\ lastEvent' = NoEvent
  /\ UNCHANGED <<silenceTimeoutMs, quietDue, phase, configSensitivity,
                 attentionKeywords, voiceSensitivity, transcriptionService, nextFrame,
                 errorListener, retryAttempts>>

\* the service from its construction
DrainInit == SttInit /\ retryQueue = <<>>

DrainNext ==
  \/ SttStartStream
  \/ SttSendAudio
  \/ RetryToTheEnd
  \/ SttTick

\* setTimeout resolves the delay of the loop once its time has passed, and
\* the loop goes on when the delay is resolved
DrainSpec ==
  DrainInit /\ [][DrainNext]_vars /\ WF_vars(RetryToTheEnd) /\ WF_vars(SttTick)

\* The calls that fill the retry queue and the loop that drains it.
QNext ==
  \/ SttStartStream
  \/ SttSendAudio
  \/ RetryAfterDelay
  \/ SttTick

QueueSpec == SttInit /\ [][QNext]_vars

PNext ==
  \/ Start
  \/ AddProfile
  \/ AudioChunk
  \/ SttTranscript
  \/ SttClose
  \/ SilenceTimeout
  \/ Tick

PipelineSpec == Init /\ [][PNext]_vars

\* The event loop runs the callback of a timeout that is due, and time passes.
LiveSpec == Spec /\ WF_vars(SilenceTimeout) /\ WF_vars(Tick)

\* ------------------------------------------------------------ hub actions
\* start(port): the server listens and the heartbeat monitor is started
HubStart ==
  /\ ~wss
  /\ wss' = TRUE
  /\ heartbeatIn' = HEARTBEAT_INTERVAL_MS
  /\ lastHub' = NoHub
  /\ UNCHANGED <<clients, sessions, nextMessage, dvars, pvars, xvars>>

\* stop(): clearInterval, cleanupConnection for every client, wss.close()
HubStop ==
  /\ wss
  /\ HCommit(stopFrom(HubState, 1))
  /\ lastHub' = NoHub
  /\ wss' = FALSE
  /\ heartbeatIn' = 0
  /\ UNCHANGED <<nextMessage, dvars, pvars, xvars>>

\* wss 'connection' -> handleConnection(socket)
Connect ==
  /\ wss
  /\ Len(sessions) < MaxClients
  /\ LET h == handleConnection(HubState)
     IN /\ HCommit(h)
        /\ lastHub' = Hub("handleConnection", Len(sessions) + 1, FALSE, <<>>, h)
  /\ UNCHANGED <<wss, heartbeatIn, nextMessage, dvars, pvars, xvars>>

\* socket 'message' -> handleMessage(clientId, data): an audio frame or a
\* text message arrives
Message ==
  /\ nextMessage <= MaxMessages
  /\ \E c \in DOMAIN sessions, m \in MessageInputs :
       /\ sessions[c].socket # "CLOSED"
       /\ LET h == handleMessage(HubState, c, m.data)
          IN /\ HCommit(h)
             /\ lastHub' = Hub("handleMessage", c, m.binary, m.data, h)
  /\ nextMessage' = nextMessage + 1
  /\ UNCHANGED <<wss, heartbeatIn, dvars, pvars, xvars>>

\* socket 'message' -> handleMessage(clientId, data): the client's
\* heartbeat message arrives
HeartbeatMessage ==
  \E c \in DOMAIN sessions :
    /\ sessions[c].socket # "CLOSED"
    /\ LET h == handleMessage(HubState, c, JsonHeartbeat)
       IN /\ HCommit(h)
          /\ lastHub' = Hub("handleMessage", c, FALSE, JsonHeartbeat, h)
    /\ UNCHANGED <<wss, heartbeatIn, nextMessage, dvars, pvars, xvars>>

\* socket 'pong'
Pong ==
  \E c \in DOMAIN sessions :
    /\ sessions[c].socket # "CLOSED"
    /\ sessions' = IF c \in clients
                     THEN [sessions EXCEPT ![c].isAlive = TRUE, ![c].lastHeartbeat = 0]
                     ELSE sessions
    /\ lastHub' = NoHub
    /\ UNCHANGED <<wss, heartbeatIn, clients, nextMessage, dvars, pvars, xvars>>

\* The peer's close frame arrives: the socket is CLOSING until its 'close'
\* event is delivered.
PeerClosing ==
  \E c \in DOMAIN sessions :
    /\ sessions[c].socket = "OPEN"
    /\ sessions' = [sessions EXCEPT ![c].socket = "CLOSING"]
    /\ lastHub' = NoHub
    /\ UNCHANGED <<wss, heartbeatIn, clients, nextMessage, dvars, pvars, xvars>>

\* socket 'close' -> handleDisconnection(clientId): the connection broke,
\* or the close that the peer or the hub began has completed
SocketClose ==
  \E c \in DOMAIN sessions :
    /\ sessions[c].socket # "CLOSED"
    /\ LET h == handleDisconnection([HubState EXCEPT !.sessions[c].socket = "CLOSED"], c)
       IN /\ HCommit(h)
          /\ lastHub' = Hub("handleDisconnection", c, FALSE, <<>>, h)
    /\ UNCHANGED <<wss, heartbeatIn, nextMessage, dvars, pvars, xvars>>

\* the heartbeat interval fires
Heartbeat ==
  /\ wss
  /\ heartbeatIn = 0
  /\ LET h == heartbeatFrom(HubState, 1)
     IN /\ HCommit(h)
        /\ lastHub' = Hub("heartbeat", 0, FALSE, <<>>, h)
  /\ heartbeatIn' = HEARTBEAT_INTERVAL_MS
  /\ UNCHANGED <<wss, nextMessage, dvars, pvars, xvars>>

\* handleTranscript -> broadcastTranscript(transcript)
BroadcastTranscript ==
  /\ LET h == broadcastTranscript(HubState)
     IN lastHub' = Hub("broadcastTranscript", 0, FALSE, <<>>, h)
  /\ UNCHANGED <<wss, heartbeatIn, clients, sessions, nextMessage, dvars, pvars, xvars>>

\* volumeDispatcher 'volume_action' -> broadcastVolumeAction(action)
BroadcastVolumeAction ==
  /\ LET h == broadcastVolumeAction(HubState)
     IN lastHub' = Hub("broadcastVolumeAction", 0, FALSE, <<>>, h)
  /\ UNCHANGED <<wss, heartbeatIn, clients, sessions, nextMessage, dvars, pvars, xvars>>

\* One unit of the hub's time (5000 ms) passes.  The heartbeat interval
\* fires when it is due: time does not pass it by.  lastHeartbeat is read
\* only of clients in the registry.
HubTick ==
  /\ wss
  /\ heartbeatIn > 0
  /\ heartbeatIn' = heartbeatIn - 1
  /\ sessions' = [c \in DOMAIN sessions |->
                    IF c \in clients
                      THEN [sessions[c] EXCEPT
                              !.lastHeartbeat = Min({@ + 1, HEARTBEAT_TIMEOUT_MS + 1})]
                      ELSE sessions[c]]
  /\ lastHub' = NoHub
  /\ UNCHANGED <<wss, clients, nextMessage, dvars, pvars, xvars>>

HNext ==
  \/ HubStart
  \/ HubStop
  \/ Connect
  \/ HeartbeatMessage
  \/ Pong
  \/ PeerClosing
  \/ SocketClose
  \/ Heartbeat
  \/ BroadcastTranscript
  \/ BroadcastVolumeAction
  \/ HubTick

HubSpec == Init /\ [][HNext]_vars

\* The hub and the frames it receives: the peers send audio frames and text
\* messages and answer pings.
FNext ==
  \/ HubStart
  \/ HubStop
  \/ Connect
  \/ Message
  \/ Pong
  \/ PeerClosing
  \/ SocketClose
  \/ Heartbeat
  \/ HubTick

FrameSpec == Init /\ [][FNext]_vars

\* The hub with one session that has buffered the audio frames it received
\* since it connected.
BInit ==
  /\ DInit /\ PInit /\ XInit
  /\ wss = TRUE
  /\ heartbeatIn = HEARTBEAT_INTERVAL_MS
  /\ clients = {1}
  /\ \E k \in BufferedAtStart :
       sessions = <<[NewClient EXCEPT !.audioBuffer = [i \in 1..k |-> Pcm]]>>
  /\ nextMessage = 1
  /\ lastHub = NoHub

BufferSpec == BInit /\ [][FNext]_vars

\* The hub with peers that send nothing: no message, no pong.
SNext ==
  \/ HubStart
  \/ Connect
  \/ SocketClose
  \/ Heartbeat
  \/ BroadcastTranscript
  \/ HubTick

SilentSpec == Init /\ [][SNext]_vars

\* ----------------------------------------------------- calls on the engine
OtherThanEngine == <<yvars, dvars, hvars, fvars, bvars, phase, configSensitivity, voiceSensitivity,
                     profiles, transcriptionService, isStreaming, liveConnection, conns,
                     retryQueue, isRetrying, drainLoops, retrySegment, retryDelayMs, retryCount,
                     retryElapsed, currentAudioSegmentId, lastSent, audioFailures,
                     nextFrame, ignored, lastEvent, svars>>

SetLLMProvider ==
  /\ llmProvider' = TRUE
  /\ llmEnabled' = TRUE
  /\ lastDetect' = NoDetect
  /\ UNCHANGED <<OtherThanEngine, attentionKeywords, userName, uncertaintyThreshold>>

DisableLLM ==
  /\ llmEnabled' = FALSE
  /\ lastDetect' = NoDetect
  /\ UNCHANGED <<OtherThanEngine, attentionKeywords, userName, llmProvider,
                 uncertaintyThreshold>>

EnableLLM ==
  /\ llmEnabled' = (llmProvider \/ llmEnabled)
  /\ lastDetect' = NoDetect
  /\ UNCHANGED <<OtherThanEngine, attentionKeywords, userName, llmProvider,
                 uncertaintyThreshold>>

\* setUncertaintyThreshold(threshold): throws outside [0, 1]
SetUncertaintyThreshold ==
  \E threshold \in ThresholdInputs :
    /\ uncertaintyThreshold' = IF threshold < 0 \/ threshold > 100
                                 THEN uncertaintyThreshold ELSE threshold
    /\ lastDetect' = NoDetect
    /\ UNCHANGED <<OtherThanEngine, attentionKeywords, userName, llmProvider, llmEnabled>>

SetUserName ==
  \E name \in UserNameInputs :
    /\ userName' = trim(name)
    /\ lastDetect' = NoDetect
    /\ UNCHANGED <<OtherThanEngine, attentionKeywords, llmProvider, llmEnabled,
                   uncertaintyThreshold>>

AddKeyword ==
  \E keyword \in KeywordInputs :
    /\ attentionKeywords' = IF trim(keyword) # <<>>
                              THEN attentionKeywords \cup {trim(toLowerCase(keyword))}
                              ELSE attentionKeywords
    /\ lastDetect' = NoDetect
    /\ UNCHANGED <<OtherThanEngine, userName, llmProvider, llmEnabled, uncertaintyThreshold>>

\* analyzeTranscript(transcript, sensitivity); llm is what the provider
\* does if it is asked.  The analysis leaves the engine as it was, so the
\* calls are looked at one by one: the history is clear when a call is made
\* and every other call on the engine clears it.
Analyze ==
  /\ lastDetect = NoDetect
  /\ \E text \in EngineTexts, s \in EngineSensitivities, llm \in LLMOutcomes :
    /\ lastDetect' = Detect(text, s, llm, analyzeWithDetails(Engine, text, s, llm))
    /\ UNCHANGED <<OtherThanEngine, attentionKeywords, userName, llmProvider, llmEnabled,
                   uncertaintyThreshold>>

ENext ==
  \/ SetLLMProvider
  \/ DisableLLM
  \/ EnableLLM
  \/ SetUncertaintyThreshold
  \/ SetUserName
  \/ AddKeyword
  \/ Analyze

EngineSpec == Init /\ [][ENext]_vars

\* ---------------------------------------------------- calls on ErrorHandler
RecordFailure ==
  \E operationName \in OperationNames :
    /\ getFailureCount(failureTrackers, operationName) < MaxFailures
    /\ LET r == recordFailure(failureTrackers, operationName)
       IN /\ failureTrackers' = r.trackers
          /\ lastRecord' = Record("recordFailure", operationName, r)
    /\ UNCHANGED <<yvars, dvars, pvars, hvars, evars, bvars>>

RecordSuccess ==
  \E operationName \in OperationNames :
    /\ LET r == recordSuccess(failureTrackers, operationName)
       IN /\ failureTrackers' = r.trackers
          /\ lastRecord' = Record("recordSuccess", operationName, r)
    /\ UNCHANGED <<yvars, dvars, pvars, hvars, evars, bvars>>

ResetFailures ==
  \E operationName \in OperationNames :
    /\ LET r == resetFailures(failureTrackers, operationName)
       IN /\ failureTrackers' = r.trackers
          /\ lastRecord' = Record("resetFailures", operationName, r)
    /\ UNCHANGED <<yvars, dvars, pvars, hvars, evars, bvars>>

ErrNext ==
  \/ RecordFailure
  \/ RecordSuccess
  \/ ResetFailures

HandlerSpec == Init /\ [][ErrNext]_vars

\* -------------------------------------------------- calls on CircuitBreaker
\* execute(operation) is called and runs up to its await
ExecuteCall ==
  /\ pending < MaxPending
  /\ LET b == execute(Breaker)
     IN /\ BCommit(b)
        /\ pending' = IF b.invoked THEN pending + 1 ELSE pending
        /\ pendingProbes' = IF b.invoked /\ b.state = "HALF_OPEN"
                              THEN pendingProbes + 1 ELSE pendingProbes
        /\ lastExecute' = Execute("execute", b)
  /\ UNCHANGED <<yvars, dvars, pvars, hvars, evars, fvars>>

\* an operation that was invoked resolves or rejects and execute goes on
ExecuteSettle ==
  \E resolved \in BOOLEAN, probe \in BOOLEAN :
    /\ IF probe THEN pendingProbes > 0 ELSE pending > pendingProbes
    /\ resolved \/ failureCount < MaxFailures
    /\ LET b == settle(Breaker, resolved)
       IN /\ BCommit(b)
          /\ pending' = pending - 1
          /\ pendingProbes' = IF probe THEN pendingProbes - 1 ELSE pendingProbes
          /\ lastExecute' = Execute(IF resolved THEN "onSuccess" ELSE "onFailure", b)
    /\ UNCHANGED <<yvars, dvars, pvars, hvars, evars, fvars>>

BreakerReset ==
  /\ LET b == reset(Breaker)
     IN /\ BCommit(b)
        /\ lastExecute' = Execute("reset", b)
  /\ UNCHANGED <<yvars, dvars, pvars, hvars, evars, fvars, pending, pendingProbes>>

\* One unit of the breaker's clock passes.
BreakerTick ==
  /\ lastFailureTime < config.resetTimeoutMs
  /\ lastFailureTime' = lastFailureTime + 1
  /\ lastExecute' = NoExecute
  /\ UNCHANGED <<yvars, dvars, pvars, hvars, evars, fvars, config, state, failureCount,
                 successCount, pending, pendingProbes>>

CNext ==
  \/ ExecuteCall
  \/ ExecuteSettle
  \/ BreakerReset
  \/ BreakerTick

\* the breaker is constructed with one of the configurations
BreakerInit ==
  /\ DInit /\ PInit /\ HInit /\ EInit /\ FInit /\ YInit
  /\ \E failureThreshold \in FailureThresholdInputs,
        resetTimeoutMs \in ResetTimeoutInputs,
        halfOpenRequests \in HalfOpenInputs :
       NewBreaker(CircuitBreaker(failureThreshold, resetTimeoutMs, halfOpenRequests))

BreakerSpec == BreakerInit /\ [][CNext]_vars

\* ------------------------------------------ VoiceProfileServiceImpl, alone
OtherThanRegistry == <<dvars, hvars, evars, fvars, bvars, cvars, phase, configSensitivity,
                       attentionKeywords, transcriptionService, isStreaming,
                       liveConnection, conns, retryQueue, isRetrying, drainLoops, retrySegment,
                       retryDelayMs, retryCount, retryElapsed, currentAudioSegmentId,
                       lastSent, audioFailures, nextFrame, ignored, lastEvent, svars>>

\* addProfile(audioSamples, profileId) with no samples or with one
ProfileAdd ==
  /\ \E profileId \in RegistryIds, audioSamples \in {<<>>} \cup {<<v>> : v \in RegistryVoices} :
       /\ profiles' = addProfile(profiles, audioSamples, profileId)
       /\ lastProfile' = Profile("addProfile", profileId,
                                 IF audioSamples = <<>> THEN <<0, 0>> ELSE audioSamples[1],
                                 profiles, FALSE, NoMatch, Len(audioSamples) = 0)
  /\ UNCHANGED <<voiceSensitivity, OtherThanRegistry>>

\* removeProfile(profileId)
ProfileRemove ==
  /\ \E profileId \in RegistryIds :
       \E r \in {removeProfile(profiles, profileId)} :
         /\ profiles' = r.profiles
         /\ lastProfile' = Profile("removeProfile", profileId, <<0, 0>>, profiles,
                                   r.existed, NoMatch, FALSE)
  /\ UNCHANGED <<voiceSensitivity, OtherThanRegistry>>

\* matchesIgnoreList(audioChunk)
ProfileMatch ==
  /\ \A i \in DOMAIN profiles : profiles[i].matchCount < MaxMatches
  /\ \E chunkFeatures \in Voices :
       \E m \in {matchesIgnoreList(profiles, voiceSensitivity, chunkFeatures)} :
         /\ profiles' = m.profiles
         /\ lastProfile' = Profile("matchesIgnoreList", Null, chunkFeatures, profiles,
                                   FALSE, m.result, FALSE)
  /\ UNCHANGED <<voiceSensitivity, OtherThanRegistry>>

\* setSensitivityLevel(level)
ProfileSensitivity ==
  /\ \E level \in LevelInputs :
       /\ voiceSensitivity' = setSensitivityLevel(voiceSensitivity, level)
       /\ lastProfile' = Profile("setSensitivityLevel", Null, <<0, 0>>, profiles,
                                   FALSE, NoMatch, level < 0 \/ level > 100)
  /\ UNCHANGED <<profiles, OtherThanRegistry>>

RNext ==
  \/ ProfileAdd
  \/ ProfileRemove
  \/ ProfileMatch
  \/ ProfileSensitivity

RegistrySpec == Init /\ [][RNext]_vars

\* --------------------------------------------- ConfigurationManagerImpl
OtherThanConfig == <<currentVolumeState, silenceTimer, timers, lastTimerId, emitted,
                     quietDue, lastOp, hvars, fvars, bvars, rvars, svars,
                     llmProvider, llmEnabled, uncertaintyThreshold, lastDetect,
                     phase, profiles, isStreaming, liveConnection, conns, retryQueue,
                     isRetrying, drainLoops, retrySegment, retryDelayMs, retryCount, retryElapsed,
                     currentAudioSegmentId, lastSent, audioFailures, nextFrame, ignored,
                     lastEvent>>

\* what a call on the manager alone leaves as it is
ComponentsAndRest == <<voiceSensitivity, dispatcherSensitivity, attentionKeywords,
                       userName, silenceTimeoutMs, transcriptionService, OtherThanConfig>>

\* configManager.saveConfiguration(config)
SaveConfiguration ==
  /\ \E data \in ConfigBodies :
       \E mgr \in {saveConfiguration(Manager, data)} :
         /\ MCommit(mgr)
         /\ lastConfig' = Config("saveConfiguration", validate(fromJSON(data))
                                    \cap {"sensitivity", "timeout"} # {}, mgr.threw)
  /\ UNCHANGED ComponentsAndRest

\* configManager.updateSensitivity(level)
UpdateSensitivity ==
  /\ \E level \in ConfigLevelInputs :
       \E mgr \in {updateSensitivity(Manager, level)} :
         /\ MCommit(mgr)
         /\ lastConfig' = Config("updateSensitivity", level < 0 \/ level > 100, mgr.threw)
  /\ UNCHANGED ComponentsAndRest

\* configManager.setTimeout(timeoutMs)
ConfigSetTimeout ==
  /\ \E timeoutMs \in ConfigSetTimeoutInputs :
       \E mgr \in {setTimeout(Manager, timeoutMs)} :
         /\ MCommit(mgr)
         /\ lastConfig' = Config("setTimeout", timeoutMs < MinSilenceTimeoutMs, mgr.threw)
  /\ UNCHANGED ComponentsAndRest

\* configManager.addKeyword(keyword)
ConfigAddKeyword ==
  /\ \E keyword \in ConfigKeywords :
       \E mgr \in {addKeyword(Manager, keyword)} :
         /\ MCommit(mgr)
         /\ lastConfig' = Config("addKeyword", FALSE, mgr.threw)
  /\ UNCHANGED ComponentsAndRest

\* configManager.loadConfiguration()
LoadConfiguration ==
  /\ \E env \in EnvInputs :
       \E mgr \in {loadConfiguration(Manager, env)} :
         /\ MCommit(mgr)
         /\ lastConfig' = Config("loadConfiguration", FALSE, mgr.threw)
  /\ UNCHANGED ComponentsAndRest

MNext ==
  \/ SaveConfiguration
  \/ UpdateSensitivity
  \/ ConfigSetTimeout
  \/ ConfigAddKeyword
  \/ LoadConfiguration

ManagerSpec == Init /\ [][MNext]_vars

\* PUT /config: saveConfiguration(req.body), then applyConfiguration(); an
\* error of either is answered with status 400
PutConfig ==
  /\ phase = "started"
  /\ \E data \in ConfigBodies :
       \E mgr \in {saveConfiguration(Manager, data)} :
         \E a \in {applyConfiguration(Components, mgr.config)} :
           /\ MCommit(mgr)
           /\ ACommit(a)
           /\ lastConfig' = Config("PUT /config", validate(fromJSON(data))
                                      \cap {"sensitivity", "timeout"} # {}, a.threw)
  /\ UNCHANGED OtherThanConfig

\* PUT /config/sensitivity: updateSensitivity(level), then the setters of the
\* voice profile service and of the dispatcher
PutSensitivity ==
  /\ phase = "started"
  /\ \E level \in ConfigLevelInputs :
       \E mgr \in {updateSensitivity(Manager, level)} :
         /\ MCommit(mgr)
         /\ ACommit(IF mgr.threw THEN Components
                    ELSE [Components EXCEPT !.voice = setSensitivityLevel(@, level),
                                            !.dispatcher = level])
         /\ lastConfig' = Config("PUT /config/sensitivity", level < 0 \/ level > 100,
                                   mgr.threw)
  /\ UNCHANGED OtherThanConfig

\* POST /config/keywords: addKeyword of the manager, then of the engine
PostKeyword ==
  /\ phase = "started"
  /\ \E keyword \in ConfigKeywords :
       \E mgr \in {addKeyword(Manager, keyword)} :
         /\ MCommit(mgr)
         /\ ACommit(IF mgr.threw THEN Components
                    ELSE [Components EXCEPT !.keywords = engineAddKeywords(@, {keyword})])
         /\ lastConfig' = Config("POST /config/keywords", FALSE, mgr.threw)
  /\ UNCHANGED OtherThanConfig

CfgNext ==
  \/ Start
  \/ PutConfig
  \/ PutSensitivity
  \/ PostKeyword

ConfigSpec == Init /\ [][CfgNext]_vars

\* ------------------------------------------------------------- properties
PendingIds == {t.id : t \in timers}
TimerIds == 1..MaxTimerIds

LowerDefinite == createLowerVolumeAction("DEFINITELY_TO_ME", ConfDefinite)
LowerProbable == createLowerVolumeAction("PROBABLY_TO_ME", ConfProbable)

\* exactly one timer is pending after the step: the one held, with the
\* full silence timeout still to run
OneFreshTimerAfter ==
  /\ silenceTimer' # Null
  /\ timers' = {[id |-> silenceTimer', remaining |-> silenceTimeoutMs]}

DispatchStep(decision) ==
  lastOp'.op = "dispatchAction" /\ lastOp'.decision = decision

\* C1: a DEFINITELY_TO_ME verdict dispatched in state normal, at any
\* sensitivity, emits exactly one LOWER_VOLUME command (reason
\* DEFINITELY_TO_ME, confidence 0.95), makes the state lowered and leaves
\* exactly one silence timer pending.
C1_DefiniteInNormalDims ==
  [][ (DispatchStep("DEFINITELY_TO_ME") /\ currentVolumeState = "normal")
        => /\ emitted' = Append(emitted, LowerDefinite)
           /\ currentVolumeState' = "lowered"
           /\ OneFreshTimerAfter ]_vars

C1_Witness ==
  /\ lastOp.op = "dispatchAction" /\ lastOp.decision = "DEFINITELY_TO_ME"
  /\ lastOp.from = "normal" /\ lastOp.arg = 0
  /\ emitted # <<>> /\ Last(emitted) = LowerDefinite
  /\ currentVolumeState = "lowered"

\* C2: a PROBABLY_TO_ME verdict emits a LOWER_VOLUME command iff
\* sensitivity > 0.5 and the state is normal; at sensitivity <= 0.5 nothing
\* is emitted, the state is unchanged and no timer is started or reset.
C2_ProbableConditional ==
  [][ DispatchStep("PROBABLY_TO_ME")
        => /\ (emitted' # emitted) <=>
                 (lastOp'.arg > 50 /\ currentVolumeState = "normal")
           /\ (emitted' # emitted) =>
                 /\ emitted' = Append(emitted, LowerProbable)
                 /\ currentVolumeState' = "lowered"
           /\ (lastOp'.arg <= 50) =>
                 UNCHANGED <<currentVolumeState, silenceTimer, timers, emitted>> ]_vars

C2_Witness ==
  /\ lastOp.op = "dispatchAction" /\ lastOp.decision = "PROBABLY_TO_ME"
  /\ lastOp.from = "normal" /\ lastOp.arg = 51
  /\ emitted # <<>> /\ Last(emitted) = LowerProbable
  /\ currentVolumeState = "lowered"

\* C3: once the volume is lowered and a silence timer is pending, either the
\* timer is restarted or cancelled (an attention verdict or a force
\* operation arrived) or the state returns to normal; and the expiry of the
\* timer in state lowered emits exactly one RESTORE_VOLUME (reason IGNORE,
\* confidence 1.0), makes the state normal and leaves no timer pending.
C3_AutoRestore ==
  /\ [][ (lastOp'.op = "onSilenceTimeout" /\ currentVolumeState = "lowered")
          => /\ emitted' = Append(emitted, createRestoreVolumeAction)
             /\ currentVolumeState' = "normal"
             /\ timers' = {} /\ silenceTimer' = Null ]_vars
  /\ \A i \in TimerIds :
        (currentVolumeState = "lowered" /\ i \in PendingIds)
          ~> \/ currentVolumeState = "normal"
             \/ i \notin PendingIds /\ lastOp.op # "onSilenceTimeout"

C3_Witness ==
  /\ lastOp.op = "onSilenceTimeout" /\ lastOp.from = "lowered"
  /\ currentVolumeState = "normal"
  /\ emitted # <<>> /\ Last(emitted) = createRestoreVolumeAction
  /\ timers = {}

\* C4: in state lowered an attention verdict (DEFINITELY_TO_ME, or
\* PROBABLY_TO_ME at sensitivity > 0.5) emits nothing and restarts the
\* silence timer with the full timeout; and a RESTORE by timer expiry never
\* comes before a full silenceTimeoutMs has passed since the most recent
\* attention verdict.
C4_DebounceRestartsTimer ==
  /\ [][ (lastOp'.op = "dispatchAction"
            /\ IsAttention(lastOp'.decision, lastOp'.arg)
            /\ currentVolumeState = "lowered")
          => /\ emitted' = emitted
             /\ currentVolumeState' = "lowered"
             /\ OneFreshTimerAfter ]_vars
  /\ [][ (lastOp'.op = "onSilenceTimeout" /\ emitted' # emitted)
          => quietDue = 0 ]_vars

C4_Witness ==
  /\ lastOp.op = "dispatchAction" /\ lastOp.decision = "PROBABLY_TO_ME"
  /\ lastOp.arg = 51 /\ lastOp.from = "lowered" /\ lastOp.hadTimer
  /\ currentVolumeState = "lowered"
  /\ quietDue = silenceTimeoutMs
  /\ Len(emitted) = 1

\* C5: no RESTORE_VOLUME is emitted in state normal: in the command log
\* every RESTORE is directly preceded by a LOWER, and the state is normal
\* exactly when the log is empty or ends with a RESTORE.
C5_NoRestoreInNormal ==
  /\ \A i \in 1..Len(emitted) :
        emitted[i].type = "RESTORE_VOLUME"
          => i > 1 /\ emitted[i - 1].type = "LOWER_VOLUME"
  /\ (currentVolumeState = "normal")
        <=> (emitted = <<>> \/ Last(emitted).type = "RESTORE_VOLUME")

C5_Witness ==
  /\ lastOp.op = "forceRestoreVolume" /\ lastOp.from = "normal"
  /\ Len(emitted) = 2 /\ emitted[2].type = "RESTORE_VOLUME"

\* C6: at most one silence timer is pending, it is the one whose handle the
\* dispatcher holds, and only the held timer ever runs its callback.
C6_AtMostOneTimer ==
  /\ [](/\ Cardinality(timers) <= 1
        /\ PendingIds = IF silenceTimer = Null THEN {} ELSE {silenceTimer})
  /\ [][ lastOp'.op = "onSilenceTimeout" => lastOp'.arg = silenceTimer ]_vars

C6_Witness ==
  /\ lastOp.op = "startSilenceTimer" /\ lastOp.hadTimer
  /\ Cardinality(timers) = 1

\* C7 as claimed: forceLowerVolume emits a LOWER_VOLUME command whatever
\* the current state, and starts a fresh silence timer.
C7_ForceLowerAlwaysEmits ==
  [][ lastOp'.op = "forceLowerVolume"
        => /\ emitted' = Append(emitted,
                  createLowerVolumeAction("DEFINITELY_TO_ME", ConfForce))
           /\ OneFreshTimerAfter ]_vars

C7_Witness ==
  /\ lastOp.op = "forceLowerVolume" /\ lastOp.from = "lowered"
  /\ currentVolumeState = "lowered"
  /\ Len(emitted) = 1
  /\ silenceTimer # Null

\* C8: an IGNORE verdict never emits a command and never changes the state;
\* in state normal it starts no timer; in state lowered it starts the
\* silence timer only when none is held and leaves a running timer alone.
C8_IgnoreFrame ==
  [][ DispatchStep("IGNORE")
        => /\ emitted' = emitted
           /\ currentVolumeState' = currentVolumeState
           /\ (currentVolumeState = "normal" \/ silenceTimer # Null)
                 => UNCHANGED <<silenceTimer, timers>>
           /\ (currentVolumeState = "lowered" /\ silenceTimer = Null)
                 => OneFreshTimerAfter ]_vars

C8_Witness ==
  /\ lastOp.op = "dispatchAction" /\ lastOp.decision = "IGNORE"
  /\ lastOp.from = "lowered" /\ lastOp.hadTimer
  /\ \E t \in timers : t.id = silenceTimer /\ t.remaining = 0
  /\ quietDue = 0

\* frames a connection that is still open has received
Received == UNION {conns[c].received : c \in DOMAIN conns}
\* frames on the retry queue or held by processRetryQueue
Queued == {retryQueue[i].frame : i \in DOMAIN retryQueue} \cup ({retrySegment} \ {Null})

\* C9: a partial transcript that reaches handleTranscript (the Transcript
\* handler drops empty text) is broadcast but not passed to the attention
\* engine, and the step that handles it changes neither the dispatcher's
\* state nor its silence timer nor the commands emitted; a transcript that
\* is analysed is a final one, and the backend calls the dispatcher only
\* for a final transcript it has analysed.
C9_PartialNeverAnalysed ==
  /\ [](lastEvent.op = "handleTranscript" /\ lastEvent.partial
          => lastEvent.broadcast /\ ~lastEvent.analysed)
  /\ [](lastEvent.op = "handleTranscript" /\ ~lastEvent.partial /\ lastEvent.broadcast
          => lastEvent.analysed)
  /\ [][ (lastEvent'.op = "handleTranscript" /\ lastEvent'.partial)
          => UNCHANGED <<currentVolumeState, silenceTimer, timers, lastTimerId,
                         emitted>> ]_vars
  /\ [][ (currentVolumeState' # currentVolumeState \/ silenceTimer' # silenceTimer
            \/ emitted' # emitted)
          => \/ lastOp'.op = "onSilenceTimeout"
             \/ lastEvent'.op = "handleTranscript" /\ ~lastEvent'.partial
                  /\ lastEvent'.analysed ]_vars

C9_Witness ==
  /\ lastEvent.op = "handleTranscript" /\ lastEvent.partial /\ lastEvent.broadcast
  /\ currentVolumeState = "lowered"
  /\ \E t \in timers : t.id = silenceTimer /\ t.remaining = 0

\* C10: a frame for which matchesIgnoreList reports isMatch = true starts
\* no STT stream, is not sent to STT and is not queued for retry, in the
\* step that handles it and ever after; that step emits no command and
\* leaves the dispatcher alone, and no transcript comes of the frame, since
\* STT transcribes only what it has received.
C10_IgnoredFrameSkipsStt ==
  /\ [](ignored \cap (Received \cup Queued) = {})
  /\ [][ (nextFrame \in ignored')
          => /\ UNCHANGED <<conns, liveConnection, isStreaming, retryQueue,
                            isRetrying, retrySegment, audioFailures>>
             /\ UNCHANGED <<currentVolumeState, silenceTimer, timers, emitted>>
             /\ (lastEvent' = NoEvent) ]_vars

C10_Witness ==
  /\ ignored = {1}
  /\ nextFrame = 3
  /\ 2 \in Received
  /\ \E i \in DOMAIN profiles : profiles[i].matchCount = 1

\* C11: every connection that has closed (by the peer, or after the
\* heartbeat monitor or stop() removed it) has had exactly one
\* 'disconnection' event, and no connection ever has more than one; a
\* session whose socket has closed, or that the hub removed, is absent from
\* the registry, its audio buffer is empty and its socket is not open.
C11_ExactlyOneDisconnection ==
  \A c \in DOMAIN sessions :
    /\ sessions[c].disconnections <= 1
    /\ (sessions[c].socket = "CLOSED") <=> (sessions[c].disconnections = 1)
    /\ (sessions[c].socket = "CLOSED" \/ c \notin clients)
         => /\ c \notin clients
            /\ sessions[c].audioBuffer = <<>>
            /\ sessions[c].socket # "OPEN"

\* a session the heartbeat monitor or stop() had removed gets its event
C11_Witness ==
  /\ lastHub.op = "handleDisconnection"
  /\ lastHub.events = <<HubEvent("disconnection", lastHub.client, 0)>>
  /\ sessions[lastHub.client].disconnections = 1
  /\ \E c \in clients : sessions[c].socket = "OPEN" /\ sessions[c].audioBuffer # <<>>

\* C12: a session in the registry never has a last heartbeat older than
\* HEARTBEAT_TIMEOUT; and at each heartbeat tick a session with
\* isAlive = false is removed, every other session stays, has isAlive set
\* to false and is sent a ping.
C12_StaleRemovedInTime ==
  /\ [](\A c \in clients : sessions[c].lastHeartbeat <= HEARTBEAT_TIMEOUT_MS)
  /\ [][ lastHub'.op = "heartbeat"
           => \A c \in clients :
                IF ~sessions[c].isAlive
                  THEN c \notin clients' /\ c \notin lastHub'.pinged
                  ELSE c \in clients' /\ ~sessions'[c].isAlive
                         /\ c \in lastHub'.pinged ]_vars

\* one tick removes a stale session and pings a live one
C12_Witness ==
  /\ lastHub.op = "heartbeat"
  /\ \E c \in DOMAIN sessions :
       /\ c \notin clients
       /\ HubEvent("stale_connection", c, 0) \in {lastHub.events[i] : i \in DOMAIN lastHub.events}
  /\ lastHub.pinged # {}

\* C13: a client that connects and then sends nothing is removed by the
\* heartbeat monitor not before 30 s and not after about 40 s since it
\* connected, gets at most one 'disconnection' event, and nothing is sent
\* to a session that is not in the registry.
C13_SilentClientTerminatedAfter30s ==
  /\ [][ \A c \in clients :
           (lastHub'.op = "heartbeat" /\ c \notin clients')
             => sessions[c].lastHeartbeat >= HEARTBEAT_TIMEOUT_MS ]_vars
  /\ [](\A c \in clients :
          sessions[c].lastHeartbeat <= HEARTBEAT_TIMEOUT_MS + HEARTBEAT_INTERVAL_MS)
  /\ [](\A c \in DOMAIN sessions : sessions[c].disconnections <= 1)
  /\ [](\A i \in DOMAIN lastHub.out : lastHub.out[i].to \in clients)

\* C14: a binary frame received on a session in the registry is published
\* as exactly one 'audio_chunk' event with the frame's size, whatever its
\* bytes.
C14_EveryBinaryFrameIsPublished ==
  (lastHub.op = "handleMessage" /\ lastHub.binary /\ lastHub.client \in clients)
    => lastHub.events = <<HubEvent("audio_chunk", lastHub.client, Len(lastHub.data))>>

\* C15: no session's audio buffer holds more than its capacity, the
\* smallest capacity the claim allows being 100 frames.
C15_BufferBounded ==
  \A c \in clients : Len(sessions[c].audioBuffer) <= 100

\* C16: a text message that is not valid JSON is dropped: no event is
\* published for it, no audio buffer changes and the registry is unchanged.
C16_MalformedTextDropped ==
  [][ (lastHub'.op = "handleMessage" /\ ~lastHub'.binary /\ ~JSONparse(lastHub'.data).ok)
        => /\ lastHub'.events = <<>>
           /\ sessions' = sessions
           /\ clients' = clients ]_vars

C18_RetryQueueBounded ==
  /\ [](Len(retryQueue) <= MAX_QUEUE_SIZE)
  /\ [][ (lastStt'.op = "sendAudio" /\ ~lastStt'.ok /\ ~lastStt'.threw)
           => LET segment == [frame |-> lastStt'.frame, retryCount |-> 0]
              IN IF Len(retryQueue) >= MAX_QUEUE_SIZE
                   THEN lastStt'.overflow /\ retryQueue' = Append(Tail(retryQueue), segment)
                   ELSE ~lastStt'.overflow /\ retryQueue' = Append(retryQueue, segment) ]_vars

C18_Witness ==
  /\ lastStt.op = "sendAudio"
  /\ lastStt.overflow
  /\ Len(retryQueue) = MAX_QUEUE_SIZE
  /\ retryQueue[Len(retryQueue)].frame = lastStt.frame
  /\ retryQueue[1].frame # retrySegment

\* C19: the k-th retry of a segment (k = 1..5) is attempted only when
\* BASE_RETRY_DELAY_MS * 2^(k-1) have passed since the attempt before it,
\* after which the loop took the segment up again; no segment is tried a
\* sixth time; a queued segment whose fifth retry fails leaves the queue in
\* that step with segment_discarded, so that no segment with five failed
\* retries rests in the queue.
C19_BackoffThenDiscard ==
  /\ [](\A i \in DOMAIN retryQueue : retryQueue[i].retryCount < MAX_RETRY_COUNT)
  /\ [][ (lastStt'.op = "retry" /\ retryAttempts' # retryAttempts)
           => /\ lastStt'.retryNo \in 1..MAX_RETRY_COUNT
              /\ lastStt'.waited >= BASE_RETRY_DELAY_MS * Pow2(lastStt'.retryNo - 1)
              /\ (/\ ~lastStt'.ok
                  /\ lastStt'.retryNo = MAX_RETRY_COUNT
                  /\ retryQueue # <<>> /\ retryQueue[1].frame = retrySegment)
                   => /\ lastStt'.discarded = {retrySegment}
                      /\ \A i \in DOMAIN retryQueue' : retryQueue'[i].frame # retrySegment ]_vars

C19_Witness ==
  /\ lastStt.op = "retry"
  /\ ~lastStt.ok
  /\ lastStt.retryNo = MAX_RETRY_COUNT
  /\ lastStt.waited = BASE_RETRY_DELAY_MS * Pow2(MAX_RETRY_COUNT - 1)
  /\ lastStt.discarded = {lastStt.frame}
  /\ isRetrying /\ retrySegment # Null /\ retryCount = 0

\* C20: a sendAudio call does not throw, and a frame it could not send is
\* at the tail of the retry queue when it returns.
C20_SendAudioNeverFails ==
  lastStt.op = "sendAudio"
    => /\ ~lastStt.threw
       /\ ~lastStt.ok => /\ retryQueue # <<>>
                         /\ retryQueue[Len(retryQueue)].frame = lastStt.frame

\* C21: at most one STT connection is open and unfinished at any moment,
\* whatever the order of startStream, closeStream and sendAudio calls and
\* of Close events, late ones of earlier connections included.
C21_AtMostOneLiveConnection ==
  Cardinality({c \in DOMAIN conns : conns[c].open /\ ~conns[c].finished}) <= 1

\* C22: every connection was opened under an audioSegmentId of its own,
\* and a transcript that is broadcast carries, in the payload sent to the
\* clients, the audioSegmentId of the stream that produced it.
C22_TranscriptCarriesSegmentId ==
  /\ \A c1, c2 \in DOMAIN conns :
       conns[c1].segmentId # Null /\ (c1 # c2 => conns[c1].segmentId # conns[c2].segmentId)
  /\ (lastEvent.op = "handleTranscript" /\ lastEvent.broadcast)
       => lastEvent.payload = lastEvent.stream

\* C23: frames reach the STT connections in the order in which they
\* arrived: no frame is sent, directly or from the retry queue, after a
\* frame that arrived later than it.
C23_FramesSentInArrivalOrder ==
  [][ (lastSent' # lastSent /\ lastSent # Null /\ lastSent' # Null)
        => lastSent' > lastSent ]_vars

\* ---- the engine's last analysis
DetectText == trim(toLowerCase(lastDetect.text))
Analysed == lastDetect.op = "analyzeWithDetails"
HasKeyword ==
  \/ \E k \in attentionKeywords : Includes(DetectText, k)
  \/ userName # <<>> /\ Includes(DetectText, toLowerCase(userName))
HasPattern == questionPatterns(DetectText) \cup directAddressPatterns(DetectText) # {}

\* C24: with the LLM disabled, a text that contains a keyword or the user
\* name is DEFINITELY_TO_ME with confidence 0.95, also when a pattern matches
\* too; a text with a pattern and no keyword is PROBABLY_TO_ME with
\* confidence 0.7; a text with neither is IGNORE.
C24_RuleBasedDecision ==
  (Analysed /\ ~llmEnabled) =>
     /\ HasKeyword => /\ lastDetect.result.decision = "DEFINITELY_TO_ME"
                      /\ lastDetect.result.confidence = 95
     /\ (~HasKeyword /\ HasPattern) => /\ lastDetect.result.decision = "PROBABLY_TO_ME"
                                       /\ lastDetect.result.confidence = 70
     /\ (~HasKeyword /\ ~HasPattern) => lastDetect.result.decision = "IGNORE"

\* the user name and a pattern both match and the keyword rule wins
C24_Witness ==
  /\ Analysed /\ ~llmEnabled
  /\ userName # <<>> /\ Includes(DetectText, toLowerCase(userName))
  /\ HasPattern
  /\ lastDetect.result.decision = "DEFINITELY_TO_ME"

\* C25: the provider is asked exactly once for a transcript with no keyword
\* and no pattern whose rule-based confidence is below uncertaintyThreshold
\* while the LLM is enabled and a provider is set, and not at all otherwise
\* (a blank text is no transcript: it is answered before any rule is tried).
C25_LLMCalledOnceWhenUncertain ==
  Analysed =>
    lastDetect.result.llmCalls =
      IF /\ DetectText # <<>>
         /\ ~HasKeyword /\ ~HasPattern
         /\ calculateRuleBasedConfidence(DetectText) < uncertaintyThreshold
         /\ llmEnabled /\ llmProvider
        THEN 1 ELSE 0

\* the provider is asked about an uncertain text
C25_Witness ==
  /\ Analysed /\ llmEnabled /\ llmProvider
  /\ ~HasKeyword /\ ~HasPattern
  /\ calculateRuleBasedConfidence(DetectText) = 10 /\ uncertaintyThreshold = 50
  /\ lastDetect.result.llmCalls = 1

\* C26: when the provider throws, the analysis does not throw: it returns
\* IGNORE with confidence 1 minus the rule-based confidence and usedLLM
\* false, and emits llm_fallback once.
C26_FallbackWhenLLMThrows ==
  (Analysed /\ lastDetect.result.llmCalls = 1 /\ lastDetect.llm.throws) =>
     /\ ~lastDetect.result.threw
     /\ lastDetect.result.decision = "IGNORE"
     /\ lastDetect.result.confidence = 100 - calculateRuleBasedConfidence(DetectText)
     /\ ~lastDetect.result.usedLLM
     /\ Cardinality({i \in DOMAIN lastDetect.result.events :
                       lastDetect.result.events[i] = "llm_fallback"}) = 1

\* the provider was asked and threw
C26_Witness ==
  /\ Analysed /\ lastDetect.result.llmCalls = 1 /\ lastDetect.llm.throws
  /\ lastDetect.result.events = <<"llm_invoked", "llm_fallback", "detection">>

\* C27: on the LLM path the decision follows the provider's confidence
\* times the sensitivity: DEFINITELY_TO_ME from 0.8, PROBABLY_TO_ME from 0.5
\* and below 0.8, IGNORE below 0.5.
C27_AdjustedConfidenceDecides ==
  (Analysed /\ lastDetect.result.usedLLM) =>
     LET adjusted == lastDetect.llm.confidence * lastDetect.sensitivity
     IN /\ adjusted >= 8000 => lastDetect.result.decision = "DEFINITELY_TO_ME"
        /\ (5000 <= adjusted /\ adjusted < 8000)
             => lastDetect.result.decision = "PROBABLY_TO_ME"
        /\ adjusted < 5000 => lastDetect.result.decision = "IGNORE"

\* a confident provider and a sensitivity of 0.5 give PROBABLY_TO_ME
C27_Witness ==
  /\ Analysed /\ lastDetect.result.usedLLM
  /\ lastDetect.llm.confidence = 100 /\ lastDetect.sensitivity = 50
  /\ lastDetect.result.decision = "PROBABLY_TO_ME"

\* C28: a failure recorded for an operation emits the warning exactly when
\* it brings that operation's count to 3, and reports that count;
\* recordSuccess sets the count back to 0 and the warning is armed again
\* (the tracker holds warningEmitted exactly from the third failure on);
\* the counts of the other operations stay as they are.
C28_WarningOncePerThreeFailures ==
  /\ [](\A n \in DOMAIN failureTrackers :
          failureTrackers[n].warningEmitted
            <=> failureTrackers[n].failureCount >= FAILURE_WARNING_THRESHOLD)
  /\ [][ LET n == lastRecord'.operationName
             others == \A o \in OperationNames \ {n} :
                         getFailureCount(failureTrackers', o)
                           = getFailureCount(failureTrackers, o)
         IN /\ lastRecord'.op = "recordFailure" =>
                 /\ getFailureCount(failureTrackers', n)
                      = getFailureCount(failureTrackers, n) + 1
                 /\ lastRecord'.count = getFailureCount(failureTrackers', n)
                 /\ (\E i \in DOMAIN lastRecord'.events : lastRecord'.events[i] = "warning")
                      <=> lastRecord'.count = 3
                 /\ Cardinality({i \in DOMAIN lastRecord'.events :
                                   lastRecord'.events[i] = "warning"}) <= 1
                 /\ others
            /\ lastRecord'.op = "recordSuccess" =>
                 getFailureCount(failureTrackers', n) = 0 /\ others ]_vars

\* the third failure of one operation warns while another operation has
\* failures of its own
C28_Witness ==
  /\ lastRecord.op = "recordFailure"
  /\ lastRecord.events = <<"error_recorded", "warning">>
  /\ lastRecord.count = 3
  /\ \E o \in DOMAIN failureTrackers :
       o # lastRecord.operationName /\ failureTrackers[o].failureCount = 2

\* C29: in CLOSED the failure that brings the count of consecutive failures
\* to failureThreshold opens the breaker, and no earlier one does; an execute
\* in OPEN once resetTimeout has passed since the last failure moves to
\* HALF_OPEN and invokes the operation; in HALF_OPEN the success that
\* completes halfOpenRequests successes closes the breaker with both counters
\* at 0, and a failure opens it again.
C29_BreakerTransitions ==
  /\ [](state = "CLOSED" => failureCount < config.failureThreshold)
  /\ [][ /\ (lastExecute'.op = "onFailure" /\ state = "CLOSED") =>
               /\ failureCount' = failureCount + 1
               /\ state' = IF failureCount' >= config.failureThreshold
                             THEN "OPEN" ELSE "CLOSED"
         /\ (lastExecute'.op = "onSuccess" /\ state = "CLOSED") =>
               state' = "CLOSED" /\ failureCount' = 0
         /\ (lastExecute'.op = "execute" /\ state = "OPEN"
               /\ lastFailureTime >= config.resetTimeoutMs) =>
               state' = "HALF_OPEN" /\ lastExecute'.invoked /\ pending' = pending + 1
         /\ (lastExecute'.op = "onSuccess" /\ state = "HALF_OPEN") =>
               IF successCount + 1 >= config.halfOpenRequests
                 THEN state' = "CLOSED" /\ failureCount' = 0 /\ successCount' = 0
                 ELSE state' = "HALF_OPEN" /\ successCount' = successCount + 1
         /\ (lastExecute'.op = "onFailure" /\ state = "HALF_OPEN") =>
               state' = "OPEN" ]_vars

\* the breaker is closed again by the last of three probes
C29_Witness ==
  /\ lastExecute.op = "onSuccess"
  /\ lastExecute.from = "HALF_OPEN"
  /\ lastExecute.events = << <<"HALF_OPEN", "CLOSED">> >>
  /\ config.halfOpenRequests = DefaultHalfOpenRequests
  /\ state = "CLOSED" /\ failureCount = 0 /\ successCount = 0

\* C30: an execute in OPEN before resetTimeout has passed since the last
\* failure is rejected, does not invoke the operation and leaves the state,
\* the counters and the time of the last failure as they are.
C30_RejectedCallChangesNothing ==
  [][ (lastExecute'.op = "execute" /\ state = "OPEN"
         /\ lastFailureTime < config.resetTimeoutMs) =>
        /\ lastExecute'.rejected /\ ~lastExecute'.invoked
        /\ UNCHANGED <<state, failureCount, successCount, lastFailureTime, pending,
                       config>> ]_vars

\* a call is rejected some time after the last failure
C30_Witness ==
  /\ lastExecute.op = "execute" /\ lastExecute.rejected
  /\ state = "OPEN"
  /\ lastFailureTime > 0
  /\ lastFailureTime < config.resetTimeoutMs

\* the entries of listProfiles() that carry the id
Listed(ps, profileId) ==
  {i \in DOMAIN listProfiles(ps) : listProfiles(ps)[i].id = profileId}

\* C31: after addProfile with a non-empty set of samples listProfiles has
\* exactly one profile with that id, and its matchCount is 0; after a
\* removeProfile that returned true the profile is absent from listProfiles;
\* a second removeProfile of the same id returns false and leaves the
\* registry unchanged.
C31_AddThenRemove ==
  [][/\ (lastProfile'.op = "addProfile" /\ ~lastProfile'.threw) =>
          /\ Cardinality(Listed(profiles', lastProfile'.profileId)) = 1
          /\ \A i \in Listed(profiles', lastProfile'.profileId) :
               listProfiles(profiles')[i].matchCount = 0
     /\ (lastProfile'.op = "removeProfile" /\ lastProfile'.existed) =>
          Listed(profiles', lastProfile'.profileId) = {}
     /\ (/\ lastProfile.op = "removeProfile" /\ lastProfile.existed
         /\ lastProfile'.op = "removeProfile"
         /\ lastProfile'.profileId = lastProfile.profileId) =>
          ~lastProfile'.existed /\ profiles' = profiles]_vars

\* a removeProfile has returned false while another profile, matched
\* before, stays registered
C31_Witness ==
  /\ lastProfile.op = "removeProfile"
  /\ ~lastProfile.existed
  /\ \E i \in DOMAIN profiles : profiles[i].matchCount > 0
  /\ lastProfile.before = profiles

\* C32: addProfile with an id that is already registered is rejected with
\* an error and leaves the registered profile (signature, matchCount)
\* as it was.
C32_DuplicateIdRejected ==
  [][(lastProfile'.op = "addProfile" /\ Listed(profiles, lastProfile'.profileId) # {}) =>
       lastProfile'.threw /\ profiles' = profiles]_vars

\* addProfile with samples has returned for an id whose profile had been
\* matched before: the profile is a new one, with matchCount 0
C32_Witness ==
  /\ lastProfile.op = "addProfile"
  /\ ~lastProfile.threw
  /\ \E i \in DOMAIN lastProfile.before :
       /\ lastProfile.before[i].id = lastProfile.profileId
       /\ lastProfile.before[i].matchCount > 0
       /\ profiles[i].matchCount = 0

\* the similarity of the chunk of the last call to profile i as it was
\* before the call
SimilarityTo(i) ==
  calculateSimilarity(lastProfile.chunk, lastProfile.before[i].voiceSignature)

\* C33: matchesIgnoreList returns isMatch = true exactly when some
\* registered profile has a similarity >= the current sensitivity level
\* (similarity = sensitivity and sensitivity 0 included), and the profileId
\* it returns is then a profile of maximal similarity.
C33_MatchIffSimilarEnough ==
  lastProfile.op = "matchesIgnoreList" =>
    /\ lastProfile.result.isMatch <=>
         \E i \in DOMAIN lastProfile.before : SimilarityTo(i) >= voiceSensitivity
    /\ lastProfile.result.isMatch =>
         \E i \in DOMAIN lastProfile.before :
           /\ lastProfile.before[i].id = lastProfile.result.profileId
           /\ \A j \in DOMAIN lastProfile.before : SimilarityTo(i) >= SimilarityTo(j)

\* matchesIgnoreList has returned isMatch = false at sensitivity 0 with a
\* profile registered
C33_Witness ==
  /\ lastProfile.op = "matchesIgnoreList"
  /\ voiceSensitivity = 0
  /\ lastProfile.before # <<>>
  /\ ~lastProfile.result.isMatch

\* the stored configuration is within its bounds
InBounds(c) ==
  /\ 0 <= c.sensitivityLevel /\ c.sensitivityLevel <= 100
  /\ c.silenceTimeoutMs >= MinSilenceTimeoutMs

\* C34: after any sequence of configuration operations the stored
\* configuration has 0 <= sensitivity <= 1 and silenceTimeoutMs >= 1000; an
\* update that violates a bound is rejected with an error and leaves the
\* stored configuration as it was.
C34_StoredConfigInBounds ==
  /\ [](InBounds(storedConfig) /\ configSensitivity = storedConfig.sensitivityLevel)
  /\ [][lastConfig'.invalid => lastConfig'.threw /\ storedConfig' = storedConfig]_vars

\* saveConfiguration has returned without an error and the configuration
\* it stored is out of bounds
C34_Witness ==
  /\ lastConfig.op = "saveConfiguration"
  /\ lastConfig.invalid
  /\ ~lastConfig.threw
  /\ ~InBounds(storedConfig)

\* every component holds the setting the stored configuration has
Synced ==
  /\ voiceSensitivity = storedConfig.sensitivityLevel
  /\ dispatcherSensitivity = storedConfig.sensitivityLevel
  /\ silenceTimeoutMs = storedConfig.silenceTimeoutMs
  /\ attentionKeywords = storedConfig.attentionKeywords
  /\ userName = storedConfig.userName

\* C35: after a PUT /config or PUT /config/sensitivity request has
\* completed, with success or with an error, the voice filter's and the
\* dispatcher's sensitivity, the dispatcher's silence timeout and the
\* engine's keywords and user name equal those of the stored configuration.
C35_ComponentsFollowConfig ==
  [][lastConfig'.op \in {"PUT /config", "PUT /config/sensitivity"} => Synced']_vars

\* a PUT /config with a configuration within bounds has succeeded and a
\* component differs from the stored configuration
C35_Witness ==
  /\ lastConfig.op = "PUT /config"
  /\ ~lastConfig.invalid
  /\ ~lastConfig.threw
  /\ ~Synced

\* the segments a retry queue holds
Frames(queue) == {queue[i].frame : i \in DOMAIN queue}

\* C36: when a send of the retry loop succeeds, the segment the loop
\* removes from the queue is the segment it has just sent, whatever
\* queueForRetry calls, overflow drops included, were made during the
\* delay; every segment that leaves the queue in a step was sent in it, or
\* dropped with queue_overflow, or discarded with segment_discarded.
C36_RemovedSegmentWasSent ==
  [][/\ (lastStt'.op = "retry" /\ retryAttempts' # retryAttempts /\ lastStt'.ok)
          => retryQueue # <<>> /\ retryQueue[1].frame = retrySegment
     /\ \A frame \in Frames(retryQueue) \ Frames(retryQueue') :
          \/ lastStt'.op = "retry" /\ lastStt'.ok /\ lastStt'.frame = frame
          \/ lastStt'.overflow
          \/ frame \in lastStt'.discarded]_vars

\* a send of the retry loop has succeeded for a segment that an overflow
\* had dropped from the queue during the delay
C36_Witness ==
  /\ lastStt.op = "retry"
  /\ lastStt.ok
  /\ Len(retryQueue) = MAX_QUEUE_SIZE - 1
  /\ \A i \in DOMAIN retryQueue : retryQueue[i].frame > lastStt.frame + 1

\* The dispatcher as the pipeline and a user drive it: verdicts, the force
\* operations, the timeout setter, the timer's callback and time; the
\* public timer methods and dispose are not called.
DimNext ==
  \/ DispatchAction
  \/ SilenceTimeout
  \/ ForceRestoreVolume
  \/ ForceLowerVolume
  \/ SetSilenceTimeout
  \/ Tick

\* The event loop runs the callback of a timeout that is due, and time passes.
DimSpec == Init /\ [][DimNext]_vars /\ WF_vars(SilenceTimeout) /\ WF_vars(Tick)

C39_AliveMeansRecentHeartbeat ==
  [][lastHub'.op = "heartbeat"
       => /\ \A c \in clients :
               sessions[c].isAlive => sessions[c].lastHeartbeat <= HEARTBEAT_INTERVAL_MS
          /\ \A i \in DOMAIN lastHub'.events : lastHub'.events[i].type # "heartbeat_timeout"
          /\ \A c \in clients \ clients' : ~sessions[c].isAlive]_vars

\* the monitor has pinged one session, whose heartbeat was a full interval
\* old, and removed another as stale
C39_Witness ==
  /\ lastHub.op = "heartbeat"
  /\ lastHub.pinged # {}
  /\ \E i \in DOMAIN lastHub.events : lastHub.events[i].type = "stale_connection"

\* C40: in every reachable state of the breaker, overlapping execute calls
\* included, state = OPEN implies failureCount >= failureThreshold; and the
\* outcome of a call that execute let through in CLOSED neither counts as a
\* probe success nor closes the breaker.
C40_OpenMeansThresholdReached ==
  /\ [](state = "OPEN" => failureCount >= config.failureThreshold)
  /\ [][(lastExecute'.op = "onSuccess" /\ pendingProbes' = pendingProbes)
          => /\ successCount' = successCount
             /\ ~(state # "CLOSED" /\ state' = "CLOSED")]_vars

\* an operation let through in CLOSED resolves while the breaker is OPEN
C40_Witness ==
  /\ lastExecute.op = "onSuccess"
  /\ lastExecute.from = "OPEN"
  /\ state = "OPEN"
  /\ failureCount = 0

\* C38: at most one call of processRetryQueue is in its loop at any time,
\* and isRetrying tells whether one is; and unless segments are queued again
\* and again, the retry queue becomes empty and isRetrying false for good,
\* whether the stream is down, comes back or every send throws.
C38_RetryWorkerTerminates ==
  /\ [](drainLoops <= 1 /\ (isRetrying <=> drainLoops = 1))
  /\ \/ []<>(lastStt.op = "sendAudio" /\ ~lastStt.ok /\ ~lastStt.threw)
     \/ <>[](retryQueue = <<>> /\ ~isRetrying)

\* the loop has ended by discarding the last segment, five failed attempts
\* after that segment was queued
C38_Witness ==
  /\ lastStt.op = "retry"
  /\ lastStt.retryNo = MAX_RETRY_COUNT
  /\ lastStt.discarded # {}
  /\ retryQueue = <<>>
  /\ ~isRetrying /\ drainLoops = 0

====
